---- MODULE Spec2Model ----
(***************************************************************************)
(* A model of matui's event and state core: the per-room chat model        *)
(* (widgets/chat.rs), the message tree (widgets/message.rs), the receipts  *)
(* index (widgets/receipts.rs) and the notification gate                   *)
(* (matrix/notify.rs, settings.rs).                                        *)
(*                                                                         *)
(* Conventions: Option<T> is a sequence of length 0 (None) or 1 (Some);    *)
(* a Vec is a sequence; a String is a sequence of one-character strings;   *)
(* event ids are naturals ordered as the id strings are; 0 is never an id. *)
(***************************************************************************)
EXTENDS Naturals, Integers, Sequences, FiniteSets, TLC

None == <<>>
Some(x) == <<x>>

\* statement sequencing: x is computed once and its value handed to F, as a
\* let binding or a mutated object is in the source
Then(x, F(_)) == CHOOSE r \in {F(v) : v \in {x}} : TRUE

\* ---------------------------------------------------------------- bounds
\* users that send events and receipts; "me" is the local user
Users == {"me", "u1", "u2"}
\* the chat's own room and one other room
Rooms == {"R", "S"}
\* receipt timestamps range over 1..MaxTs
MaxTs == 3
\* at most this many events in one TimelineBatch
MaxBatch == 2
\* rows of the message list on screen (splits[1].height)
Height == 6
\* columns available to a top-level message (area.width - 2)
Width == 12

\* ------------------------------------------------------ program constants
WindowBefore == 100
WindowAfter == 101
FirstWindow == 200
MaxDepth == 3
MaxContentLines == 10
MaxReactionLines == 5
\* usize::MAX, narrowed to the 31 bits TLC computes with
USIZE_MAX == 2147483647

\* ------------------------------------------------------------ sequences
RECURSIVE SeqOfSet(_)
SeqOfSet(S) ==
  IF S = {} THEN <<>>
  ELSE LET x == CHOOSE y \in S : TRUE IN <<x>> \o SeqOfSet(S \ {x})

Range(s) == {s[i] : i \in DOMAIN s}

Reverse(s) == [i \in 1..Len(s) |-> s[Len(s) + 1 - i]]

RemoveAt(s, i) == SubSeq(s, 1, i - 1) \o SubSeq(s, i + 1, Len(s))

\* Iterator::position: the first index whose element satisfies P, 0 if none
Position(s, P(_)) ==
  IF \E i \in DOMAIN s : P(s[i])
  THEN CHOOSE i \in DOMAIN s : P(s[i]) /\ \A j \in 1..(i - 1) : ~P(s[j])
  ELSE 0

Min(a, b) == IF a < b THEN a ELSE b
Max(a, b) == IF a > b THEN a ELSE b
\* usize::saturating_sub
SatSub(a, b) == IF a > b THEN a - b ELSE 0

\* --------------------------------------------------------------- strings
\* str::to_lowercase on the characters the model uses
LowerChar(c) ==
  CASE c = "A" -> "a"
    [] c = "B" -> "b"
    [] OTHER -> c

to_lowercase(s) == [i \in 1..Len(s) |-> LowerChar(s[i])]

\* str::contains
contains(s, t) ==
  \E i \in 0..Len(s) : i + Len(t) <= Len(s) /\ SubSeq(s, i + 1, i + Len(t)) = t

\* ------------------------------------------------ OrderedEvent (chat.rs)
\* impl Ord for OrderedEvent
cmp(a, b) ==
  IF a.id = b.id THEN "Equal"
  ELSE IF a.ts = b.ts THEN (IF a.id < b.id THEN "Less" ELSE "Greater")
  ELSE IF a.ts < b.ts THEN "Less" ELSE "Greater"

\* a sorted insert that keeps an element comparing Equal to a stored one
RECURSIVE insert_keeping_equal(_, _)
insert_keeping_equal(s, e) ==
  IF s = <<>> THEN <<e>>
  ELSE IF cmp(e, Head(s)) = "Greater" THEN <<Head(s)>> \o insert_keeping_equal(Tail(s), e)
  ELSE <<e>> \o s

\* a set that keeps its events in the order they arrived
insert_as_arrived(s, e) ==
  IF \E i \in DOMAIN s : cmp(e, s[i]) = "Equal" THEN s ELSE Append(s, e)

\* BTreeSet<OrderedEvent>::insert on the set kept as its ascending sequence:
\* an element that compares Equal to a stored one is not inserted
RECURSIVE insert(_, _)
insert(s, e) ==
  IF s = <<>> THEN <<e>>
  ELSE LET c == cmp(e, Head(s)) IN
       IF c = "Equal" THEN s
       ELSE IF c = "Less" THEN <<e>> \o s
       ELSE <<Head(s)>> \o insert(Tail(s), e)

\* ------------------------------------------------- Username (username.rs)
\* Username::new
Username_new(id) == [id |-> id, display_name |-> None]

\* Username::update; a member is [user_id, display_name]
Username_update(u, member) ==
  IF u.id = member.user_id THEN [u EXCEPT !.display_name = member.display_name] ELSE u

\* --------------------------------------------------- Message (message.rs)
SupportedTypes == {"text", "image", "video", "file"}

\* Message::try_from: can we make a brand-new message, just from this event?
try_from(event, force) ==
  IF event.type # "message" THEN None
  ELSE IF event.body.msgtype \notin SupportedTypes THEN None
  ELSE IF event.rel = "replace" THEN None
  ELSE IF event.rel = "reply" /\ ~force THEN None
  ELSE Some([id |-> event.id,
             in_reply_to |-> IF event.rel = "reply" THEN Some(event.target) ELSE None,
             room_id |-> event.room,
             sent |-> event.ts,
             body |-> event.body,
             history |-> <<>>,
             sender |-> Username_new(event.sender),
             reactions |-> <<>>,
             replies |-> <<>>,
             receipts |-> <<>>,
             search_term |-> None])

\* an edit that puts the superseded body first in the history
edit_prepending(message, new_body) ==
  [message EXCEPT !.body = new_body, !.history = <<message.body>> \o @]

\* Message::edit
edit(message, new_body) ==
  [message EXCEPT !.body = new_body, !.history = Append(@, message.body)]

\* ReactionEvent::new
ReactionEvent_new(id, sender_id) == [id |-> id, sender |-> Username_new(sender_id)]

\* a redaction that leaves the emptied reactions in place
redact_keeping_empty(messages, id) ==
  LET keep(ev) == ev.id # id
      strip(m) == [m EXCEPT !.reactions =
                     [i \in 1..Len(@) |-> [@[i] EXCEPT !.events = SelectSeq(@, keep)]]]
      other(m) == m.id # id
  IN SelectSeq([i \in 1..Len(messages) |-> strip(messages[i])], other)

\* the redaction branch of apply_timeline_event on one list
redact(messages, id) ==
  LET keep(ev) == ev.id # id
      nonempty(r) == r.events # <<>>
      strip(m) == [m EXCEPT !.reactions =
                     SelectSeq([i \in 1..Len(@) |-> [@[i] EXCEPT !.events = SelectSeq(@, keep)]],
                               nonempty)]
      other(m) == m.id # id
  IN SelectSeq([i \in 1..Len(messages) |-> strip(messages[i])], other)

RECURSIVE apply_timeline_event(_, _, _)
RECURSIVE apply_to_replies(_, _, _, _, _)

\* a closing loop that goes down the tree without counting the level
RECURSIVE apply_to_replies_same_depth(_, _, _, _, _)
apply_to_replies_same_depth(messages, event, depth, i, reply_result) ==
  IF i > Len(messages) THEN [messages |-> messages, result |-> reply_result]
  ELSE IF messages[i].replies = <<>>
       THEN apply_to_replies_same_depth(messages, event, depth, i + 1, reply_result)
       ELSE Then(apply_timeline_event(messages[i].replies, event, depth), LAMBDA r :
            Then([messages EXCEPT ![i].replies = r.messages], LAMBDA applied :
            apply_to_replies_same_depth(applied, event, depth, i + 1,
                                        IF r.result # "Missed" THEN r.result ELSE reply_result)))

\* the closing loop of apply_timeline_event: continue down the tree from
\* message i on, propagating a "Missed" result
apply_to_replies(messages, event, depth, i, reply_result) ==
  IF i > Len(messages) THEN [messages |-> messages, result |-> reply_result]
  ELSE IF messages[i].replies = <<>>
       THEN apply_to_replies(messages, event, depth, i + 1, reply_result)
       ELSE Then(apply_timeline_event(messages[i].replies, event, depth + 1), LAMBDA r :
            Then([messages EXCEPT ![i].replies = r.messages], LAMBDA applied :
            apply_to_replies(applied, event, depth, i + 1,
                             IF r.result # "Missed" THEN r.result ELSE reply_result)))

\* Message::apply_timeline_event: returns the changed list and the MergeResult
apply_timeline_event(messages, event, depth) ==
  LET is_message == event.type = "message"
      has_id(m) == m.id = event.target
      at == Position(messages, has_id)
      reply == try_from(event, TRUE)
      found == IF reply # None THEN at ELSE 0
  IN
  IF is_message /\ event.rel = "replace" /\ at # 0
  THEN [messages |-> [messages EXCEPT ![at] = edit(@, event.body)], result |-> "Consumed"]
  ELSE IF is_message /\ event.rel = "reply" /\ found # 0
  THEN IF depth > MaxDepth
       THEN \* we found a new reply, but can't nest any deeper
            [messages |-> Append(messages, reply[1]), result |-> "Consumed"]
       ELSE \* we found a message with a new reply, so move it to the end
            [messages |-> Append(RemoveAt(messages, found),
                                 [messages[found] EXCEPT !.replies = Append(@, reply[1])]),
             result |-> "Consumed"]
  ELSE IF event.type = "reaction" /\ at # 0
  THEN [messages |-> [messages EXCEPT ![at].reactions =
                        Append(@, [body |-> event.key,
                                   events |-> <<ReactionEvent_new(event.id, event.sender)>>])],
        result |-> "Consumed"]
  ELSE Then(IF event.type = "redaction" /\ event.target # 0
            THEN redact(messages, event.target)
            ELSE messages,
            LAMBDA redacted :
            apply_to_replies(redacted, event, depth, 1,
                             IF is_message /\ event.rel = "reply" THEN "Missed" ELSE "Ignored"))

\* Message::contains_search_term
RECURSIVE contains_search_term(_, _)
contains_search_term(m, search_term) ==
  IF search_term = <<>> THEN TRUE
  ELSE \/ contains(to_lowercase(m.body.text), search_term)
       \/ \E i \in DOMAIN m.replies : contains_search_term(m.replies[i], search_term)

\* Message::set_search_term: a OnceCell, so only the first set takes effect
RECURSIVE set_search_term(_, _)
set_search_term(m, term) ==
  [m EXCEPT !.search_term = IF @ = None THEN Some(term) ELSE @,
            !.replies = [i \in 1..Len(@) |-> set_search_term(@[i], term)]]

\* Message::contains_id
RECURSIVE contains_id(_, _)
contains_id(m, id) ==
  \/ m.id = id
  \/ \E i \in DOMAIN m.replies : contains_id(m.replies[i], id)

\* Message::update_senders
RECURSIVE update_one(_, _)
update_one(m, member) ==
  [m EXCEPT !.sender = Username_update(@, member),
            !.reactions = [i \in 1..Len(@) |->
                             [@[i] EXCEPT !.events =
                                [j \in 1..Len(@) |-> [@[j] EXCEPT !.sender = Username_update(@, member)]]]],
            !.receipts = [i \in 1..Len(@) |-> Username_update(@[i], member)]]

RECURSIVE update_members(_, _)
update_members(m, members) ==
  IF members = <<>> THEN m
  ELSE update_members(update_one(m, Head(members)), Tail(members))

RECURSIVE update_senders(_, _)
update_senders(m, members) ==
  [update_members(m, members) EXCEPT
     !.replies = [i \in 1..Len(@) |-> update_senders(@[i], members)]]

\* Reaction::merge: drain the given reactions to create a merged version
RECURSIVE merge_into(_, _)
merge_into(merged, reactions) ==
  IF reactions = <<>> THEN merged
  ELSE LET r == Head(reactions)
           added == \E i \in DOMAIN merged : merged[i].body = r.body
       IN Then(IF added
               THEN [i \in 1..Len(merged) |->
                       IF merged[i].body = r.body
                       THEN [merged[i] EXCEPT !.events = @ \o r.events]
                       ELSE merged[i]]
               ELSE Append(merged, r),
               LAMBDA next_merged : merge_into(next_merged, Tail(reactions)))

merge(reactions) == merge_into(<<>>, reactions)

\* ------------------------------------------------- Receipts (receipts.rs)
\* the order of user ids as strings
UserRank(u) == CASE u = "me" -> 1 [] u = "u1" -> 2 [] u = "u2" -> 3

\* derived Ord of Receipt: by timestamp, then by user id
ReceiptLess(a, b) ==
  \/ a.timestamp < b.timestamp
  \/ a.timestamp = b.timestamp /\ UserRank(a.user_id) < UserRank(b.user_id)

\* Receipts::apply_timestamp_and_user; markers is a function from the users
\* that have a marker to their timestamp
apply_timestamp_and_user(markers, ignore, timestamp, user_id) ==
  IF user_id = ignore THEN markers
  ELSE IF user_id \notin DOMAIN markers
       THEN [u \in DOMAIN markers \cup {user_id} |->
               IF u = user_id THEN timestamp ELSE markers[u]]
       ELSE IF timestamp > markers[user_id]
            THEN [markers EXCEPT ![user_id] = timestamp]
            ELSE markers

\* Receipts::apply_event; content is the sequence of the event's Read
\* receipts [user_id, ts], ts an Option
RECURSIVE apply_event(_, _, _)
apply_event(markers, ignore, content) ==
  IF content = <<>> THEN markers
  ELSE LET r == Head(content) IN
       Then(IF r.ts # None
            THEN apply_timestamp_and_user(markers, ignore, r.ts[1], r.user_id)
            ELSE markers,
            LAMBDA applied : apply_event(applied, ignore, Tail(content)))

\* Receipts::get_senders
get_senders(content) == [i \in 1..Len(content) |-> content[i].user_id]

\* Receipts::get_all: the BinaryHeap as the sequence in which pop() yields
\* its elements, greatest first
RECURSIVE heap_of(_)
heap_of(rs) ==
  IF rs = {} THEN <<>>
  ELSE Then(CHOOSE r \in rs : \A o \in rs \ {r} : ReceiptLess(o, r), LAMBDA top :
       Then(rs \ {top}, LAMBDA rest : <<top>> \o heap_of(rest)))

get_all(markers) ==
  heap_of({[timestamp |-> markers[u], user_id |-> u] : u \in DOMAIN markers})

\* a loop that also pops the receipts as old as the message
RECURSIVE attach_at_equal(_, _)
attach_at_equal(message, heap) ==
  IF heap # <<>> /\ Head(heap).timestamp >= message.sent
  THEN attach_at_equal([message EXCEPT !.receipts = Append(@, Username_new(Head(heap).user_id))],
                       Tail(heap))
  ELSE [message |-> message, heap |-> heap]

\* the while loop of apply_receipts: pop the receipts newer than the message
RECURSIVE attach(_, _)
attach(message, heap) ==
  IF heap # <<>> /\ Head(heap).timestamp > message.sent
  THEN attach([message EXCEPT !.receipts = Append(@, Username_new(Head(heap).user_id))],
              Tail(heap))
  ELSE [message |-> message, heap |-> heap]

\* Message::apply_receipts, walking the list from its last message (index i)
\* to its first; every reply chain starts from a fresh copy of the heap
RECURSIVE apply_receipts_from(_, _, _, _)
apply_receipts_from(messages, heap, og_heap, i) ==
  IF i = 0 THEN messages
  ELSE Then(IF messages[i].replies # <<>>
            THEN [messages[i] EXCEPT !.replies =
                    apply_receipts_from(@, og_heap, og_heap, Len(@))]
            ELSE messages[i],
            LAMBDA message :
            Then(attach(message, heap), LAMBDA a :
            Then([messages EXCEPT ![i] = a.message], LAMBDA attached :
            apply_receipts_from(attached, a.heap, og_heap, i - 1))))

apply_receipts(messages, heap) == apply_receipts_from(messages, heap, heap, Len(messages))

\* ------------------------------------------------ make_message_list (chat.rs)
\* a loop that also appends a reply some message of the tree has consumed
RECURSIVE ingest_ignoring_result(_, _)
ingest_ignoring_result(messages, timeline) ==
  IF timeline = <<>> THEN messages
  ELSE LET event == Head(timeline)
           fresh == try_from(event, FALSE)
           forced == try_from(event, TRUE)
       IN Then(IF fresh # None THEN Append(messages, fresh[1])
               ELSE Then(apply_timeline_event(messages, event, 0), LAMBDA applied :
                         IF forced # None
                         THEN Append(applied.messages, forced[1])
                         ELSE applied.messages),
               LAMBDA pushed : ingest_ignoring_result(pushed, Tail(timeline)))

\* a loop that never forces a reply into place
RECURSIVE ingest_without_forcing(_, _)
ingest_without_forcing(messages, timeline) ==
  IF timeline = <<>> THEN messages
  ELSE LET event == Head(timeline)
           fresh == try_from(event, FALSE)
       IN Then(IF fresh # None THEN Append(messages, fresh[1])
               ELSE apply_timeline_event(messages, event, 0).messages,
               LAMBDA pushed : ingest_without_forcing(pushed, Tail(timeline)))

\* the loop of make_message_list over the ordered events
RECURSIVE ingest(_, _)
ingest(messages, timeline) ==
  IF timeline = <<>> THEN messages
  ELSE LET event == Head(timeline)
           fresh == try_from(event, FALSE)
           forced == try_from(event, TRUE)
       IN Then(IF fresh # None THEN Append(messages, fresh[1])
               ELSE Then(apply_timeline_event(messages, event, 0), LAMBDA applied :
                         IF applied.result = "Missed" /\ forced # None
                         THEN Append(applied.messages, forced[1])
                         ELSE applied.messages),
               LAMBDA pushed : ingest(pushed, Tail(timeline)))

make_message_list(timeline, members, receipts, search_term) ==
  LET matches(m) == contains_search_term(m, search_term)
      retain(built) == IF search_term # <<>>
                       THEN Then(SelectSeq(built, matches), LAMBDA kept :
                            [i \in 1..Len(kept) |-> set_search_term(kept[i], search_term)])
                       ELSE built
  IN Then(ingest(<<>>, timeline), LAMBDA built :
     Then(retain(built), LAMBDA searched :
     Then(get_all(receipts), LAMBDA heap :
     \* apply our read receipts
     Then(apply_receipts(searched, heap), LAMBDA received :
     \* update senders to friendly names
     Then([i \in 1..Len(received) |-> update_senders(received[i], members)], LAMBDA named :
     \* merge all the reactions
     Then([i \in 1..Len(named) |-> [named[i] EXCEPT !.reactions = merge(@)]],
          Reverse))))))

\* ------------------------------------------------ rendering (message.rs)
\* str::split('\n')
RECURSIVE split_lines(_, _)
split_lines(s, acc) ==
  IF s = <<>> THEN <<acc>>
  ELSE IF Head(s) = "\n" THEN <<acc>> \o split_lines(Tail(s), <<>>)
  ELSE split_lines(Tail(s), Append(acc, Head(s)))

\* str::trim().is_empty()
is_blank(line) == \A i \in DOMAIN line : line[i] \in {" ", "\t"}

\* the same, taking every line that starts with ">" for a line of the header
RECURSIVE header_len_any_quote(_)
header_len_any_quote(lines) ==
  IF lines = <<>> THEN 0
  ELSE LET line == Head(lines) IN
       IF is_blank(line) \/ (Len(line) >= 1 /\ line[1] = ">")
       THEN Len(line) + 1 + header_len_any_quote(Tail(lines))
       ELSE 0

\* the marker loop of remove_reply_header over the split lines
RECURSIVE header_len(_)
header_len(lines) ==
  IF lines = <<>> THEN 0
  ELSE LET line == Head(lines) IN
       IF is_blank(line) \/ (Len(line) >= 2 /\ line[1] = ">" /\ line[2] = " ")
       THEN Len(line) + 1 + header_len(Tail(lines))
       ELSE 0

\* Message::remove_reply_header
remove_reply_header(body) ==
  SubSeq(body, Min(header_len(split_lines(body, <<>>)), Len(body)) + 1, Len(body))

\* str::trim
RECURSIVE trim_start(_)
trim_start(s) == IF s # <<>> /\ Head(s) \in {" ", "\t", "\n"} THEN trim_start(Tail(s)) ELSE s

trim(s) == Reverse(trim_start(Reverse(trim_start(s))))

\* Message::display; the model's bodies carry no size info, so every
\* supported type displays its body text
display(m) == IF m.body.msgtype \in SupportedTypes THEN trim(m.body.text) ELSE <<"?">>

\* the number of lines textwrap::wrap(body, width) yields, taking every
\* character as one column: each line of the body fills ceil(len / width) rows
RECURSIVE wrap_rows(_, _)
wrap_rows(lines, width) ==
  IF lines = <<>> THEN 0
  ELSE LET n == Len(Head(lines)) IN
       (IF n = 0 THEN 1 ELSE (n + width - 1) \div width) + wrap_rows(Tail(lines), width)

wrap_len(body, width) == wrap_rows(split_lines(body, <<>>), width)

DeadSpace == [type |-> "DeadSpace", id |-> 0]
MessageContent == [type |-> "MessageContent", id |-> 0]
MessageStart(id) == [type |-> "MessageStart", id |-> id]

Repeat(x, n) == [i \in 1..n |-> x]

\* Message::to_list_items_internal, the sidecar of line types only
RECURSIVE to_list_items_internal(_, _, _)
RECURSIVE replies_items(_, _)
replies_items(replies, width) ==
  IF replies = <<>> THEN <<>>
  ELSE LET r == Head(replies) IN
       to_list_items_internal(r, remove_reply_header(display(r)), width - 2)
         \o replies_items(Tail(replies), width)

to_list_items_internal(m, body, width) ==
  LET wrapped == wrap_len(body, width)
      message_overlap == wrapped > MaxContentLines
  IN <<DeadSpace, MessageStart(m.id)>>
     \o Repeat(MessageContent, Min(wrapped, MaxContentLines))
     \o (IF message_overlap \/ Len(m.reactions) > MaxReactionLines THEN <<MessageContent>> ELSE <<>>)
     \o (IF m.receipts # <<>> THEN <<MessageContent>> ELSE <<>>)
     \o Repeat(MessageContent, Min(Len(m.reactions), MaxReactionLines))
     \o replies_items(m.replies, width)

\* Message::to_list_items: the sidecar, reversed for the bottom-to-top list
to_list_items(m, width) == Reverse(to_list_items_internal(m, display(m), width))

\* the line types ChatWidget::render collects for the window
RECURSIVE window_lines(_, _)
window_lines(messages, width) ==
  IF messages = <<>> THEN <<>>
  ELSE to_list_items(Head(messages), width) \o window_lines(Tail(messages), width)

\* find_bookmark: 0-based line index as an Option
find_bookmark(bookmark, lines) ==
  LET is_start(l) == l = MessageStart(bookmark.message_id)
      at == Position(lines, is_start)
  IN IF at = 0 THEN None ELSE Some(SatSub(at - 1, bookmark.offset))

\* what rendering the List widget does to ListState.offset (ratatui's
\* get_items_bounds with every item one row high): keep the selection,
\* clamped to the items, between offset and offset + height
list_offset(selected, offset, len, height) ==
  IF len = 0 \/ height = 0 THEN offset
  ELSE LET sel == Min(IF selected = None THEN 0 ELSE selected[1], len - 1)
           off == Min(offset, len - 1)
       IN IF sel < off THEN sel
          ELSE IF sel >= off + height THEN sel + 1 - height
          ELSE off

\* --------------------------------------------------------- Chat (chat.rs)
\* A Chat is the record of its fields; out collects the commands the handler
\* under way has issued to the Matrix facade and is empty between handlers; checked tells whether the build
\* panics on integer overflow (debug) or wraps (release); panicked is set
\* once a handler has panicked.
ConfigMaxEvents == 6

\* settings::max_events
max_events ==
  IF ConfigMaxEvents = -1 THEN USIZE_MAX
  ELSE IF ConfigMaxEvents > 0 THEN ConfigMaxEvents
  ELSE 1024

\* ------------------------------------------------------ KeyCombo (lib.rs)
\* An Instant is kept as the milliseconds that passed since it was taken;
\* every age beyond the time-frame counts the same.
Timeframe == 500

\* KeyCombo::new: the combo reversed, so that the next expected character
\* is the last of waiting_for
KeyCombo_new(combo) ==
  [last |-> 0, waiting_for |-> Reverse(combo), combo |-> Reverse(combo), timeframe |-> Timeframe]

\* KeyCombo::reset
KeyCombo_reset(k) == [k EXCEPT !.last = 0, !.waiting_for = k.combo]

\* self.last.elapsed()
elapsed(k) == k.last

\* time passes while the recognizer waits
KeyCombo_wait(k, ms) == [k EXCEPT !.last = Min(@ + ms, k.timeframe + 1)]

record_without_timeout(k, c) ==
  LET matched == IF c = k.waiting_for[Len(k.waiting_for)]
                   THEN [k EXCEPT !.waiting_for = SubSeq(@, 1, Len(@) - 1), !.last = 0]
                 ELSE KeyCombo_reset(k)
  IN IF matched.waiting_for = <<>> THEN [combo |-> KeyCombo_reset(matched), result |-> TRUE]
     ELSE [combo |-> matched, result |-> FALSE]

record_keeping_partial(k, c) ==
  LET timed == IF elapsed(k) > k.timeframe THEN KeyCombo_reset(k) ELSE k
      matched == IF c = timed.waiting_for[Len(timed.waiting_for)]
                   THEN [timed EXCEPT !.waiting_for = SubSeq(@, 1, Len(@) - 1), !.last = 0]
                 ELSE [timed EXCEPT !.last = 0]
  IN IF matched.waiting_for = <<>> THEN [combo |-> KeyCombo_reset(matched), result |-> TRUE]
     ELSE [combo |-> matched, result |-> FALSE]

\* KeyCombo::record: the recognizer after the call and the value returned
record(k, c) ==
  LET timed == IF elapsed(k) > k.timeframe THEN KeyCombo_reset(k) ELSE k
      matched == IF c = timed.waiting_for[Len(timed.waiting_for)]
                   THEN [timed EXCEPT !.waiting_for = SubSeq(@, 1, Len(@) - 1), !.last = 0]
                 ELSE KeyCombo_reset(timed)
  IN IF matched.waiting_for = <<>> THEN [combo |-> KeyCombo_reset(matched), result |-> TRUE]
     ELSE [combo |-> matched, result |-> FALSE]

ME == "me"
ROOM == "R"

\* ListState::default
ListState_default == [selected |-> None, offset |-> 0]

\* Chat::try_new, which also issues the first fetch_messages (see pending)
try_new(checked) ==
  [events |-> <<>>, receipts |-> <<>>, messages |-> <<>>,
   window |-> [start |-> 0, end |-> 0], read_to |-> None,
   list_state |-> ListState_default, next_cursor |-> None, fetching |-> TRUE,
   height |-> 20, line_types |-> <<>>, bookmark |-> None, focus |-> TRUE,
   search_term |-> <<>>, members |-> <<>>, in_flight |-> <<>>,
   out |-> <<>>, delete_combo |-> KeyCombo_new(<<"d", "d">>),
   checked |-> checked, panicked |-> FALSE]

emit(c, command) == [c EXCEPT !.out = Append(@, command)]
panic(c) == [c EXCEPT !.panicked = TRUE]

\* usize subtraction: a - b when it does not underflow; otherwise the build
\* decides between a panic and wrapping around
Underflows(a, b) == a < b
WrapSub(a, b) == IF a >= b THEN a - b ELSE USIZE_MAX - (b - a - 1)

\* Chat::total_list_items
total_list_items(c) == Len(c.line_types)

\* Chat::invalid_selection: is the given selection in the middle of two messages?
invalid_selection(c, selected) ==
  selected + 1 \in DOMAIN c.line_types /\ c.line_types[selected + 1] = DeadSpace

\* Chat::get_bookmark
get_bookmark(c) ==
  LET ls_selected == IF c.list_state.selected = None THEN 0 ELSE c.list_state.selected[1]
      starts == {k \in DOMAIN c.line_types :
                   k >= ls_selected + 1 /\ c.line_types[k].type = "MessageStart"}
  IN IF starts = {} THEN None
     ELSE LET k == CHOOSE x \in starts : \A y \in starts : x <= y IN
          Some([message_id |-> c.line_types[k].id,
                offset |-> k - 1 - ls_selected,
                window_offset |-> SatSub(ls_selected, c.list_state.offset)])

\* an adjust_range that keeps one message more above the selection
adjust_range_one_wider(c, force_bookmark) ==
  IF c.messages = <<>> THEN [c EXCEPT !.window = [start |-> 0, end |-> 0]]
  ELSE LET got == get_bookmark(c)
           bookmark == IF got # None THEN got[1]
                       ELSE [message_id |-> c.messages[1].id, offset |-> 1, window_offset |-> 0]
           holds(m) == contains_id(m, bookmark.message_id)
           new_selected == SatSub(Position(c.messages, holds), 1)
           start == SatSub(new_selected, WindowBefore)
           end == Min(new_selected + WindowAfter + 1, Len(c.messages))
           selected == IF c.list_state.selected = None THEN 0 ELSE c.list_state.selected[1]
           offset == c.list_state.offset
           windowed == [c EXCEPT !.window = [start |-> start, end |-> end]]
       IN IF offset = 0 /\ ~force_bookmark
          THEN IF selected = 0
               THEN windowed
               ELSE [windowed EXCEPT !.bookmark = Some([bookmark EXCEPT !.window_offset = USIZE_MAX])]
          ELSE [windowed EXCEPT !.bookmark = Some(bookmark)]

\* Chat::adjust_range
adjust_range(c, force_bookmark) ==
  IF c.messages = <<>> THEN [c EXCEPT !.window = [start |-> 0, end |-> 0]]
  ELSE LET got == get_bookmark(c)
           bookmark == IF got # None THEN got[1]
                       ELSE [message_id |-> c.messages[1].id, offset |-> 1, window_offset |-> 0]
           holds(m) == contains_id(m, bookmark.message_id)
           new_selected == SatSub(Position(c.messages, holds), 1)
           \* only keep a 100-long window around our index
           start == SatSub(new_selected, WindowBefore)
           end == Min(new_selected + WindowAfter, Len(c.messages))
           selected == IF c.list_state.selected = None THEN 0 ELSE c.list_state.selected[1]
           offset == c.list_state.offset
           windowed == [c EXCEPT !.window = [start |-> start, end |-> end]]
       IN IF offset = 0 /\ ~force_bookmark
          THEN IF selected = 0
               THEN \* if we're on the bottom, stay there
                    windowed
               ELSE \* if it's just the offset on the bottom, keep it
                    [windowed EXCEPT !.bookmark = Some([bookmark EXCEPT !.window_offset = USIZE_MAX])]
          ELSE [windowed EXCEPT !.bookmark = Some(bookmark)]

\* Chat::set_messages
set_messages(c, force_bookmark) ==
  Then(make_message_list(c.events, c.members, c.receipts, c.search_term), LAMBDA messages :
  Then([c EXCEPT !.messages = messages], LAMBDA listed :
  adjust_range(listed, force_bookmark)))

\* a check_sender that does not look at the requests in flight
check_sender_ignoring_in_flight(c, user_id) ==
  IF \E i \in DOMAIN c.members : c.members[i].user_id = user_id THEN c
  ELSE emit([c EXCEPT !.in_flight = Append(@, user_id)],
            [cmd |-> "fetch_room_member", user_id |-> user_id])

\* Chat::check_sender
check_sender(c, user_id) ==
  IF \E i \in DOMAIN c.members : c.members[i].user_id = user_id THEN c
  ELSE IF \E i \in DOMAIN c.in_flight : c.in_flight[i] = user_id THEN c
  ELSE emit([c EXCEPT !.in_flight = Append(@, user_id)],
            [cmd |-> "fetch_room_member", user_id |-> user_id])

\* a set_fully_read that does not look at the focus
set_fully_read_unfocused(c) ==
  LET read_to == IF c.messages = <<>> THEN None ELSE Some(c.messages[1].id) IN
  IF read_to = c.read_to \/ read_to = None THEN c
  ELSE [emit(c, [cmd |-> "read_to", id |-> read_to[1]]) EXCEPT !.read_to = read_to]

\* Chat::set_fully_read
set_fully_read(c) ==
  IF ~c.focus THEN c
  ELSE LET read_to == IF c.messages = <<>> THEN None ELSE Some(c.messages[1].id) IN
       IF read_to = c.read_to THEN c
       ELSE IF read_to # None
            THEN [emit(c, [cmd |-> "read_to", id |-> read_to[1]]) EXCEPT !.read_to = read_to]
            ELSE c

\* Chat::try_fetch_previous
try_fetch_previous(c) ==
  IF c.next_cursor = None \/ c.fetching THEN c
  ELSE LET selected == IF c.list_state.selected = None THEN 0 ELSE c.list_state.selected[1]
           total == total_list_items(c)
           buffer == WrapSub(total, selected)
       IN IF Underflows(total, selected) /\ c.checked THEN panic(c)
          ELSE IF buffer < 100 /\ Len(c.events) < max_events
               THEN [emit(c, [cmd |-> "fetch_messages", cursor |-> c.next_cursor,
                              limit |-> IF c.search_term = <<>> THEN 32 ELSE 256])
                       EXCEPT !.fetching = TRUE]
               ELSE c

\* Chat::first
first(c) ==
  [c EXCEPT !.list_state = [selected |-> Some(0), offset |-> 0],
            !.window = [start |-> 0, end |-> Min(Len(c.messages), FirstWindow)],
            !.bookmark = None]

\* Chat::focus_event
focus_event(c) == Then([c EXCEPT !.focus = TRUE], set_fully_read)

\* Chat::blur_event
blur_event(c) == [c EXCEPT !.focus = FALSE]

\* Chat::timeline_event
timeline_event(c, event) ==
  IF event.room # ROOM THEN c
  ELSE Then(check_sender(c, event.sender), LAMBDA checked_sender :
       Then([checked_sender EXCEPT !.events = insert(@, event)], LAMBDA inserted :
       Then(set_messages(inserted, FALSE), set_fully_read)))

\* the loop of batch_event over the events of the batch
RECURSIVE insert_batch(_, _)
insert_batch(c, batch_events) ==
  IF batch_events = <<>> THEN c
  ELSE Then(check_sender(c, Head(batch_events).sender), LAMBDA checked_sender :
       Then([checked_sender EXCEPT !.events = insert(@, Head(batch_events))], LAMBDA inserted :
       insert_batch(inserted, Tail(batch_events))))

\* a batch_event that asks for the page before whatever the batch brought
batch_event_always_fetching(c, batch) ==
  IF batch.room # ROOM THEN c
  ELSE LET reset == c.messages = <<>> IN
       Then([c EXCEPT !.next_cursor = batch.cursor], LAMBDA cursored :
       Then(insert_batch(cursored, batch.events), LAMBDA inserted :
       Then(set_messages(inserted, FALSE), LAMBDA listed :
       Then([listed EXCEPT !.fetching = FALSE], LAMBDA fetched :
       Then(set_fully_read(fetched), LAMBDA read :
       Then(IF reset THEN [read EXCEPT !.list_state.selected = Some(0)] ELSE read,
            try_fetch_previous))))))

\* Chat::batch_event
batch_event(c, batch) ==
  IF batch.room # ROOM THEN c
  ELSE LET reset == c.messages = <<>> IN
       Then([c EXCEPT !.next_cursor = batch.cursor], LAMBDA cursored :
       Then(insert_batch(cursored, batch.events), LAMBDA inserted :
       Then(set_messages(inserted, FALSE), LAMBDA listed :
       Then([listed EXCEPT !.fetching = FALSE], LAMBDA fetched :
       Then(set_fully_read(fetched), LAMBDA read :
       Then(IF reset THEN [read EXCEPT !.list_state.selected = Some(0)] ELSE read,
            LAMBDA selected :
            IF Len(batch.events) > 0 THEN try_fetch_previous(selected) ELSE selected))))))

\* a search_event that leaves the selection where it is
search_event_keeping_selection(c, search_term) ==
  Then([c EXCEPT !.search_term = search_term], LAMBDA termed :
  Then(set_messages(termed, FALSE), try_fetch_previous))

\* Chat::search_event
search_event(c, search_term) ==
  Then([c EXCEPT !.search_term = search_term], LAMBDA termed :
  Then(set_messages(termed, FALSE), LAMBDA listed :
  Then(try_fetch_previous(listed), LAMBDA fetched :
  IF fetched.panicked THEN fetched
  ELSE IF search_term = <<>> THEN first(fetched) ELSE fetched)))

\* the loop of receipt_event over the senders of the receipts
RECURSIVE check_senders(_, _)
check_senders(c, ids) ==
  IF ids = <<>> THEN c
  ELSE Then(check_sender(c, Head(ids)), LAMBDA known :
       Then(IF Head(ids) = ME THEN emit(known, [cmd |-> "room_visit_event"]) ELSE known,
            LAMBDA visited : check_senders(visited, Tail(ids))))

\* Chat::receipt_event
receipt_event(c, room, content) ==
  IF room # ROOM THEN c
  ELSE Then([c EXCEPT !.receipts = apply_event(@, ME, content)], LAMBDA applied :
       Then(set_messages(applied, FALSE), LAMBDA listed :
       check_senders(listed, get_senders(content))))

\* Chat::room_member_event
room_member_event(c, room, member) ==
  IF room # ROOM THEN c
  ELSE LET other(id) == id # member.user_id IN
       Then([c EXCEPT !.in_flight = SelectSeq(@, other), !.members = Append(@, member)],
            LAMBDA pushed : set_messages(pushed, FALSE))

\* Chat::next: move the selection up the list (towards older lines)
next(c, step) ==
  LET total == total_list_items(c)
      last == WrapSub(total, 1)
      moved == IF c.list_state.selected = None THEN 0
               ELSE LET i == c.list_state.selected[1] IN
                    IF i + step >= last THEN last ELSE i + step
      i == IF invalid_selection(c, moved) THEN moved + 1 ELSE moved
  IN IF c.list_state.selected # None /\ Underflows(total, 1) /\ c.checked THEN panic(c)
     ELSE Then([c EXCEPT !.list_state.selected = Some(i)],
               LAMBDA selected : adjust_range(selected, FALSE))

\* Chat::previous: move the selection down the list (towards newer lines)
previous(c, step) ==
  LET moved == IF c.list_state.selected = None THEN 0
               ELSE SatSub(c.list_state.selected[1], step)
      invalid == invalid_selection(c, moved)
      i == IF invalid THEN WrapSub(moved, 1) ELSE moved
  IN IF invalid /\ Underflows(moved, 1) /\ c.checked THEN panic(c)
     ELSE Then([c EXCEPT !.list_state.selected = Some(i)],
               LAMBDA selected : adjust_range(selected, FALSE))

\* what rendering the List widget does to ListState.selected.  The
\* releases of the widget differ: the later ones (clamps) drop the selection
\* of an empty list and move a selection past the last item onto it, the
\* earlier ones leave it alone.
list_selected(list_state, len, clamps) ==
  IF ~clamps THEN list_state
  ELSE IF len = 0 THEN [selected |-> None, offset |-> 0]
  ELSE IF list_state.selected # None /\ list_state.selected[1] >= len
       THEN [list_state EXCEPT !.selected = Some(len - 1)]
       ELSE list_state

\* ChatWidget::render: rebuild the line types of the window, restore the
\* selection from the bookmark, and let the list widget scroll to it
render(c, clamps) ==
  IF c.window.end > Len(c.messages) \/ c.window.start > c.window.end THEN panic(c)
  ELSE Then(SubSeq(c.messages, c.window.start + 1, c.window.end), LAMBDA window :
       Then(window_lines(window, Width), LAMBDA line_types :
       LET restored ==
             IF c.bookmark # None
             THEN \* if there's a bookmark, use it to set our selection
                  LET found == find_bookmark(c.bookmark[1], line_types)
                      selected == IF found = None THEN 0 ELSE found[1]
                  IN [selected |-> Some(selected),
                      offset |-> SatSub(selected, c.bookmark[1].window_offset)]
             ELSE c.list_state
           list_state == list_selected(restored, Len(line_types), clamps)
       IN [c EXCEPT !.line_types = line_types,
                    !.height = Height,
                    !.bookmark = None,
                    !.list_state = [list_state EXCEPT !.offset =
                                      list_offset(list_state.selected, @, Len(line_types), Height)]]))

\* Chat::key_event, 'k' or Up
key_k(c) ==
  Then(next(c, 1), LAMBDA moved :
  IF moved.panicked THEN moved ELSE try_fetch_previous(moved))

\* Chat::key_event, 'j' or Down
key_j(c) == previous(c, 1)

\* Chat::key_event, Ctrl-u: half a page up
key_ctrl_u(c) ==
  Then(next(c, c.height \div 2), LAMBDA moved :
  IF moved.panicked THEN moved ELSE try_fetch_previous(moved))

\* Chat::key_event, Ctrl-d: half a page down
key_ctrl_d(c) == previous(c, c.height \div 2)

\* Chat::key_event, 'G'
key_G(c) == first(c)

\* the Enter key while a search is active: leave the search
key_enter(c) ==
  IF c.search_term # <<>>
  THEN Then([c EXCEPT !.search_term = <<>>], LAMBDA cleared : set_messages(cleared, TRUE))
  ELSE c

\* ------------------------------------------- key events (widgets/mod.rs)
\* An EventResult is Ignored or Consumed with the closure to run on the App;
\* a closure is kept as the record of what it does.
Ignored == [type |-> "Ignored"]
Consumed(closure) == [type |-> "Consumed", closure |-> closure]

\* consumed!(): |_| ()
consumed == Consumed([op |-> "nothing"])

\* close!(): |app| app.close_popup()
close == Consumed([op |-> "close_popup"])

\* Button::new
Button_new(label, focused) == [label |-> label, focused |-> focused]

\* focus_next: defocus the first focused element and focus the one after
\* it; when nothing or the last element was focused, focus the first
focus_next(elements) ==
  LET focused == {i \in DOMAIN elements : elements[i].focused}
      i == CHOOSE i \in focused : \A j \in focused : i <= j
  IN IF focused # {} /\ i < Len(elements)
       THEN [elements EXCEPT ![i].focused = FALSE, ![i + 1].focused = TRUE]
     ELSE IF focused # {}
       THEN [[elements EXCEPT ![i].focused = FALSE] EXCEPT ![1].focused = TRUE]
     ELSE [elements EXCEPT ![1].focused = TRUE]

\* ------------------------------------------------- Confirm (confirm.rs)
DeleteMessage(room, id) == [type |-> "DeleteMessage", room |-> room, id |-> id]

\* Confirm::new
Confirm_new(title, message, yes, no, behavior) ==
  [type |-> "Confirm", title |-> title, message |-> message,
   yes |-> Button_new(yes, TRUE), no |-> Button_new(no, FALSE), behavior |-> behavior]

\* Confirm::make_result for ConfirmBehavior::DeleteMessage
make_result(w) ==
  IF w.yes.focused
    THEN Consumed([op |-> "redact_event", room |-> w.behavior.room, id |-> w.behavior.id])
  ELSE close

\* the keys of Confirm::key_event that move the focus
FocusKeys == {"Tab", "BackTab", "Left", "Right", "Up", "Down", "h", "j", "k", "l"}

\* Confirm::key_event
Confirm_key_event(w, input) ==
  IF input \in FocusKeys
    THEN LET moved == focus_next(<<w.yes, w.no>>)
         IN [popup |-> [w EXCEPT !.yes = moved[1], !.no = moved[2]], result |-> consumed]
  ELSE IF input = "Esc" THEN [popup |-> w, result |-> close]
  ELSE IF input = "Enter" THEN [popup |-> w, result |-> make_result(w)]
  ELSE [popup |-> w, result |-> Ignored]

\* -------------------------------------------- the keys of a chat (chat.rs)
\* truncate, of a string of one-byte characters
truncate(s, max_chars) ==
  IF Len(s) <= max_chars THEN s ELSE Append(SubSeq(s, 1, max_chars - 1), "...")

\* Chat::selected_reply: the message (or reply) currently selected by the UI
selected_reply(c) ==
  LET bookmark == get_bookmark(c)
      found == {i \in DOMAIN c.messages :
                  bookmark # None /\ c.messages[i].id = bookmark[1].message_id}
  IN IF found = {} THEN None
     ELSE Some(c.messages[CHOOSE i \in found : \A j \in found : i <= j])

\* the keys given as a character (KeyCode::Char), typed without modifiers
CharKeys == {"d", "j", "k", "h", "l"}

\* Chat::key_event while no reaction chooser is open, for the keys d, j, k,
\* Enter and the keys a chat does not know
key_event(c, input) ==
  LET recorded == IF input \in CharKeys THEN record(c.delete_combo, input)
                  ELSE [combo |-> c.delete_combo, result |-> FALSE]
      heard == [c EXCEPT !.delete_combo = recorded.combo]
  IN IF recorded.result
       THEN IF selected_reply(heard) = None THEN [chat |-> heard, result |-> Ignored]
            ELSE LET message == selected_reply(heard)[1]
                     preview == truncate(display(message), 16)
                     confirm == Confirm_new("Delete Message", preview, "Yes", "No",
                                            DeleteMessage(ROOM, message.id))
                 IN [chat |-> heard, result |-> Consumed([op |-> "set_popup", popup |-> confirm])]
     ELSE IF input = "j" THEN [chat |-> key_j(heard), result |-> consumed]
     ELSE IF input = "k" THEN [chat |-> key_k(heard), result |-> consumed]
     ELSE IF input = "Enter" THEN [chat |-> key_enter(heard), result |-> consumed]
     ELSE [chat |-> heard, result |-> Ignored]

\* ------------------------------------------------ settings (settings.rs)
\* The settings are the record of the muted rooms of the config file and of
\* the two override sets, OVERRIDES["muted"] and OVERRIDES["unmuted"].
Settings_default(config_muted) ==
  [muted |-> config_muted, overrides_muted |-> {}, overrides_unmuted |-> {}]

\* settings::overridden
overridden(s, key, value) ==
  IF key = "muted" THEN value \in s.overrides_muted ELSE value \in s.overrides_unmuted

\* settings::is_muted
is_muted(s, room) ==
  IF overridden(s, "muted", room) THEN TRUE
  ELSE IF overridden(s, "unmuted", room) THEN FALSE
  ELSE room \in s.muted

\* settings::mute
mute(s, room) ==
  [s EXCEPT !.overrides_muted = @ \cup {room}, !.overrides_unmuted = @ \ {room}]

\* settings::unmute
unmute(s, room) ==
  [s EXCEPT !.overrides_unmuted = @ \cup {room}, !.overrides_muted = @ \ {room}]

\* settings::toggle_mute
toggle_mute(s, room) == IF is_muted(s, room) THEN unmute(s, room) ELSE mute(s, room)

\* ---------------------------------------------------- Notify (notify.rs)
\* A Notify is the record of its fields; rooms maps a room id to the id of
\* the notification open for it.  A handler returns the Notify it leaves,
\* its result ("Ok", "Err" or "panic") and whether it showed a notification.
\* the notification service hands out the ids 1..MaxHandle
MaxHandle == 2

\* Notify::default
Notify_default == [focus |-> FALSE, room_id |-> None, rooms |-> <<>>]

\* HashMap::remove and HashMap::insert on rooms
map_remove(map, key) == [k \in DOMAIN map \ {key} |-> map[k]]
map_insert(map, key, value) ==
  [k \in DOMAIN map \cup {key} |-> IF k = key THEN value ELSE map[k]]

\* what the client and the notification service answer to one
\* timeline_event: the room may be unknown to the client, get_member may
\* fail or find no member, show may fail
Answers == {"ok", "no_room", "member_err", "no_member", "show_err"}

\* Notify::send_notification; handle_id is the id the service gives a
\* notification that replaces no other
send_notification(n, room, answer, handle_id) ==
  LET replaces == room \in DOMAIN n.rooms
      removed == [n EXCEPT !.rooms = map_remove(@, room)]
      id == IF replaces THEN n.rooms[room] ELSE handle_id
  IN IF answer = "show_err"
     THEN [notify |-> removed, result |-> "Err", shown |-> FALSE]
     ELSE [notify |-> [removed EXCEPT !.rooms = map_insert(@, room, id)],
           result |-> "Ok", shown |-> TRUE]

\* a blur_event that leaves the focus set
Notify_blur_event_keeping_focus(n) == n

\* Notify::focus_event, Notify::blur_event
Notify_focus_event(n) == [n EXCEPT !.focus = TRUE]
Notify_blur_event(n) == [n EXCEPT !.focus = FALSE]

\* Notify::room_visit_event
Notify_room_visit_event(n, room) ==
  [n EXCEPT !.rooms = map_remove(@, room), !.room_id = Some(room)]

\* the id of the notification Notify::room_visit_event closes: the one
\* stored for the room, when the service shows the empty notification
\* that takes its place
visit_closes(n, room, answer) ==
  IF room \in DOMAIN n.rooms /\ answer # "show_err" THEN Some(n.rooms[room]) ELSE None

\* Notify::timeline_event.  It calls Message::try_from with the event only;
\* force stands for what that call takes the second parameter of the
\* Message::try_from at hand to be.
Notify_timeline_event(n, s, event, force, answer, handle_id) ==
  LET message == try_from(event, force)
      quiet == [notify |-> n, result |-> "Ok", shown |-> FALSE]
  IN IF message = None THEN quiet
     \* don't send notifications for our own messages
     ELSE IF message[1].sender.id = ME THEN quiet
     \* or when the room is muted
     ELSE IF is_muted(s, message[1].room_id) THEN quiet
     \* don't do anything if the app is focused on our room
     ELSE IF n.focus /\ n.room_id = Some(message[1].room_id) THEN quiet
     ELSE IF answer = "no_room" \/ answer = "no_member"
          THEN [notify |-> n, result |-> "panic", shown |-> FALSE]
     ELSE IF answer = "member_err" THEN [notify |-> n, result |-> "Err", shown |-> FALSE]
     ELSE send_notification(n, message[1].room_id, answer, handle_id)

\* ------------------------------------------- DelayTimer (delaytimer.rs)
\* A DelayTimer with the tasks it spawned, in the order of the calls of
\* record: a task is "spawned" until the runtime polls it for the first
\* time, then "sleeping" until its deadline, and ends as "ran" when the
\* block has run or as "aborted"; waiter is the number of the task whose
\* JoinHandle the cell holds, or 0.  Time is counted in ticks.
DelayTimer_new(delay) == [waiter |-> 0, delay |-> delay, tasks |-> <<>>]

\* JoinHandle::abort: a task that has not finished will not run any further
abort(task) ==
  IF task.state \in {"spawned", "sleeping"} THEN [task EXCEPT !.state = "aborted"] ELSE task

\* a record that leaves the task it replaces alone
DelayTimer_record_without_abort(t, now) ==
  [t EXCEPT !.tasks = Append(@, [called |-> now, state |-> "spawned", deadline |-> 0, ran_at |-> 0]),
            !.waiter = Len(t.tasks) + 1]

\* DelayTimer::record
DelayTimer_record(t, now) ==
  LET handle == Len(t.tasks) + 1
      spawned == Append(t.tasks, [called |-> now, state |-> "spawned", deadline |-> 0, ran_at |-> 0])
  IN [t EXCEPT !.tasks = IF t.waiter # 0 THEN [spawned EXCEPT ![t.waiter] = abort(@)] ELSE spawned,
               !.waiter = handle]

\* the first poll of the block of a task: time::sleep(delay) is created
sleep(t, n, now) ==
  [t EXCEPT !.tasks[n].state = "sleeping", !.tasks[n].deadline = now + t.delay]

\* a poll after the deadline: (block.lock().unwrap())()
run_block(t, n, now) == [t EXCEPT !.tasks[n].state = "ran", !.tasks[n].ran_at = now]

\* ------------------------------------------------- the event thread
\* EventHandler::new: the park requests the thread has not received yet,
\* the token of the thread (an unpark that no park has used up), and
\* whether the thread is blocked in thread::park; where the thread is in
\* its loop, and the event its latest step sent
EventHandler_new ==
  [pk |-> 0, token |-> FALSE, parked |-> FALSE, pc |-> "try_recv", sent |-> None]

\* EventHandler::park
park(handler) == [handler EXCEPT !.pk = @ + 1]

\* EventHandler::unpark: Thread::unpark wakes the thread if it is blocked
\* and leaves the token otherwise
unpark(handler) ==
  IF handler.parked THEN [handler EXCEPT !.parked = FALSE] ELSE [handler EXCEPT !.token = TRUE]

\* the event thread takes a request off the channel and calls thread::park,
\* which returns at once when the token is there
try_recv_and_park(handler) ==
  IF handler.token THEN [handler EXCEPT !.pk = @ - 1, !.token = FALSE]
  ELSE [handler EXCEPT !.pk = @ - 1, !.parked = TRUE]

\* one step of the loop of the event thread, which stands still while it is
\* blocked in thread::park: the look at the park channel at the head of the
\* loop; event::poll, which finds a terminal event or times out; the look
\* at the park channel after event::read; the terminal event, sent on unless
\* the latest park is less than 250 ms ago; the Tick, which is due when
\* event::poll timed out and may be due after an event
handler_loop(handler, polled, fresh, due) ==
  LET looked == IF handler.pk > 0 THEN try_recv_and_park(handler) ELSE handler
  IN CASE handler.pc = "try_recv" -> [looked EXCEPT !.pc = "poll", !.sent = None]
       [] handler.pc = "poll" ->
            [handler EXCEPT !.pc = IF polled THEN "read" ELSE "timeout", !.sent = None]
       [] handler.pc = "read" -> [looked EXCEPT !.pc = "send", !.sent = None]
       [] handler.pc = "send" ->
            [handler EXCEPT !.pc = "tick", !.sent = IF fresh THEN Some("Key") ELSE None]
       [] handler.pc = "timeout" -> [handler EXCEPT !.pc = "try_recv", !.sent = Some("Tick")]
       [] handler.pc = "tick" ->
            [handler EXCEPT !.pc = "try_recv", !.sent = IF due THEN Some("Tick") ELSE None]

\* ------------------------------------------------- the editor (spawn.rs)
\* what the editor run comes to: the temporary file cannot be made, written
\* or read ("io"), the editor exits with a failure ("status"), or the file
\* is read back with its contents, in which "#" stands for the suffix
EditorAnswers ==
  {[kind |-> "io", contents |-> <<>>], [kind |-> "status", contents |-> <<>>]}
    \cup {[kind |-> "saved", contents |-> contents] :
            contents \in {<<>>, <<" ", "#">>, <<"a", " ", "#">>, <<" ", "a">>}}

\* spawn::get_text
get_text(existing, suffix, answer) ==
  IF answer.kind # "saved" THEN [ok |-> FALSE, value |-> None]
  ELSE LET contents == IF suffix = None THEN answer.contents
                       ELSE SelectSeq(answer.contents, LAMBDA ch : ch # "#")
       IN IF trim(contents) = <<>> THEN [ok |-> TRUE, value |-> None]
          ELSE [ok |-> TRUE, value |-> Some(trim(contents))]

\* the keys of a chat that run the editor
EditorKeys == {"c", "i", "R", "v", "V"}

\* Chat::key_event for these keys, up to get_text: whether the key gets as
\* far as the editor
runs_editor(c, input) ==
  CASE input = "c" -> selected_reply(c) # None /\ selected_reply(c)[1].body.msgtype = "text"
    [] input \in {"R", "v"} -> selected_reply(c) # None
    [] OTHER -> TRUE

\* the text and the suffix the key hands to get_text
editor_args(c, input) ==
  CASE input = "c" -> [existing |-> Some(display(selected_reply(c)[1])), suffix |-> Some("#")]
    [] input \in {"i", "R"} -> [existing |-> None, suffix |-> Some("#")]
    [] OTHER -> [existing |-> Some(<<"a">>), suffix |-> None]

\* Chat::key_event for these keys, from the return of get_text on: the
\* view keys hand an error of get_text on at once; the other keys unpark
\* the thread, end the typing notice, send Redraw and then look at the
\* result
editor_returns(c, terminal, input, answer) ==
  LET args == editor_args(c, input)
      result == get_text(args.existing, args.suffix, answer)
      closed == [terminal EXCEPT !.editing = None]
      command == IF ~result.ok \/ result.value = None \/ input \in {"v", "V"} THEN None
                 ELSE Some([cmd |-> CASE input = "c" -> "replace_event"
                                      [] input = "i" -> "send_text_message"
                                      [] OTHER -> "send_reply",
                            text |-> result.value[1]])
  IN IF input \in {"v", "V"} /\ ~result.ok
       THEN [closed EXCEPT !.last = Some([key |-> input, answer |-> answer.kind,
                                           unparked |-> FALSE, redraw |-> FALSE, ok |-> FALSE,
                                           command |-> None])]
     ELSE [closed EXCEPT !.handler = unpark(@), !.typing = FALSE, !.redraws = @ + 1,
                         !.last = Some([key |-> input, answer |-> answer.kind,
                                        unparked |-> TRUE, redraw |-> TRUE,
                                        ok |-> IF input \in {"v", "V"} THEN TRUE
                                               ELSE result.ok /\ result.value # None,
                                        command |-> command])]

\* ------------------------------------------------- SAS verification
\* the states a SasVerification reports on its stream of changes;
\* KeysExchanged carries the emojis unless only decimals were negotiated
SasStates ==
  {[state |-> state, emojis |-> None] :
     state \in {"Created", "Started", "Accepted", "Confirmed", "Cancelled", "Done"}}
    \cup {[state |-> "KeysExchanged", emojis |-> emojis] : emojis \in {None, Some("emojis")}}

\* tokio::spawn(sas_verification_handler(sas, sender)): the task, the
\* states its stream has reported to it, each with the events the task
\* sent for it, and whether the stream has ended
spawn_handler(sas) == [sas |-> sas, pc |-> "accept", reports |-> <<>>]

\* sas.accept().await.unwrap()
accept(task, answer) ==
  IF answer = "Ok" THEN [task EXCEPT !.pc = "next"] ELSE [task EXCEPT !.pc = "panicked"]

\* one turn of the loop of sas_verification_handler: the match on the
\* state the stream yields
on_change(task, change) ==
  LET sent == CASE change.state = "KeysExchanged" /\ change.emojis # None ->
                     <<[event |-> "VerificationStarted", sas |-> task.sas,
                        emojis |-> change.emojis[1]]>>
                [] change.state = "Done" -> <<[event |-> "VerificationCompleted"]>>
                [] OTHER -> <<>>
  IN [task EXCEPT !.reports = Append(@, [change |-> change, sent |-> sent]),
                  !.pc = IF change.state = "KeysExchanged" /\ change.emojis = None
                         THEN "panicked" ELSE "next"]

\* the stream ends: stream.next() yields None
on_end(task) == [task EXCEPT !.pc = "returned"]

\* ------------------------------------------------- TextInput
\* A String is the sequence of its bytes: "a" is a character of one byte,
\* "e1" and "e2" are the two bytes of a character like 'é', and "b1", "b2"
\* and "b3" are the three bytes of the cursor block.
bytes(ch) == IF ch = "e" THEN <<"e1", "e2">> ELSE <<ch>>

block == <<"b1", "b2", "b3">>

\* str::is_char_boundary for the byte index i, counted from 0
is_char_boundary(str, i) ==
  i = 0 \/ i = Len(str) \/ (i < Len(str) /\ str[i + 1] \notin {"e2", "b2", "b3"})

\* TextInput::new
TextInput_new(focused, password) ==
  [value |-> <<>>, focused |-> focused, password |-> password, cursor |-> 0, left |-> 0,
   panicked |-> FALSE]

\* String::replace_range(from..to, with), which panics unless both ends
\* are character boundaries
replace_range(str, from, to, with) ==
  IF to > Len(str) \/ ~is_char_boundary(str, from) \/ ~is_char_boundary(str, to) THEN None
  ELSE Some(SubSeq(str, 1, from) \o with \o SubSeq(str, to + 1, Len(str)))

\* TextInput::append_char: String::push at the end, String::insert at the
\* cursor, which panics unless the cursor is a character boundary
append_char(t, ch) ==
  IF t.cursor = Len(t.value)
    THEN [t EXCEPT !.value = @ \o bytes(ch), !.cursor = @ + 1]
  ELSE IF replace_range(t.value, t.cursor, t.cursor, bytes(ch)) = None
    THEN [t EXCEPT !.panicked = TRUE]
  ELSE [t EXCEPT !.value = replace_range(t.value, t.cursor, t.cursor, bytes(ch))[1],
                 !.cursor = @ + 1]

\* TextInput::move_right
move_right(t) == IF t.cursor < Len(t.value) THEN [t EXCEPT !.cursor = @ + 1] ELSE t

\* TextInput::backspace
backspace(t) ==
  IF t.cursor = 0 \/ t.value = <<>> THEN t
  ELSE IF replace_range(t.value, t.cursor - 1, t.cursor, <<>>) = None
    THEN [t EXCEPT !.panicked = TRUE]
  ELSE [t EXCEPT !.value = replace_range(t.value, t.cursor - 1, t.cursor, <<>>)[1],
                 !.cursor = @ - 1,
                 !.left = IF @ > 0 THEN @ - 1 ELSE @]

\* TextInput::move_left
move_left(t) ==
  LET cursor == IF t.cursor > 0 THEN t.cursor - 1 ELSE t.cursor
  IN [t EXCEPT !.cursor = cursor, !.left = IF cursor < @ THEN cursor ELSE @]

\* TextInput::input for the keys without modifiers or with Shift
TextInput_input(t, code) ==
  CASE ~t.focused -> t
    [] code = "Backspace" -> backspace(t)
    [] code = "Left" -> move_left(t)
    [] code = "Right" -> move_right(t)
    [] OTHER -> append_char(t, code)

\* TextInput::display_value: None when replace_range panics
display_value(t) ==
  LET value == IF t.password THEN [i \in 1..Len(t.value) |-> "*"] ELSE t.value
  IN IF ~t.focused THEN Some(value)
     ELSE IF t.cursor >= Len(t.value) THEN Some(value \o block)
     ELSE replace_range(value, t.cursor, t.cursor + 1, block)

\* TextInputWidget::adjust_window
adjust_window(t, size) ==
  IF Len(t.value) <= size THEN [t EXCEPT !.left = 0]
  ELSE IF t.cursor >= t.left + size THEN [t EXCEPT !.left = t.cursor - size + 1]
  ELSE IF t.left >= Len(t.value) - size THEN [t EXCEPT !.left = Len(t.value) - size + 1]
  ELSE t

\* TextInputWidget::adjusted_value: None when display_value panics or the
\* slice does not start at a character boundary
adjusted_value(t) ==
  LET value == display_value(t)
  IN IF value = None THEN None
     ELSE IF t.left = 0 THEN value
     ELSE IF t.left > Len(value[1]) \/ ~is_char_boundary(value[1], t.left) THEN None
     ELSE Some(SubSeq(value[1], t.left + 1, Len(value[1])))

\* TextInputWidget::render into an area whose inner width is size
TextInput_render(t, size) ==
  LET adjusted == adjust_window(t, size)
  IN IF adjusted_value(adjusted) = None THEN [adjusted EXCEPT !.panicked = TRUE] ELSE adjusted

\* ------------------------------------------------- the room cache
\* DecoratedRoom::from_room: the room with the latest message the client
\* has of it, not visited
from_room(room, known) == [room |-> room, visited |-> FALSE, last |-> known[room].latest]

\* RoomCache::room_visit_event: the first entry of the room is visited
RoomCache_room_visit_event(rooms, room) ==
  LET i == Position(rooms, LAMBDA dec : dec.room = room)
  IN IF i = 0 THEN rooms ELSE [rooms EXCEPT ![i].visited = TRUE]

\* the same, moving the replaced entry to the front
put_in_front(rooms, decorated) ==
  <<decorated>> \o SelectSeq(rooms, LAMBDA dec : dec.room # decorated.room)

\* RoomCache::timeline_event once it holds the lock: the first entry of the
\* room is replaced, and without one the room is inserted at index 0
put(rooms, decorated) ==
  LET i == Position(rooms, LAMBDA dec : dec.room = decorated.room)
  IN IF i = 0 THEN <<decorated>> \o rooms ELSE [rooms EXCEPT ![i] = decorated]

\* RoomCache::timeline_event before it builds the room: whether
\* client.get_room finds the room and its state is Joined
is_joined(room, known) == known[room].state = "Joined"

\* ------------------------------------------- typing notices (matrix.rs)
\* The typing state of the facade: the worker threads begin_typing has
\* spawned, each with its place in the loop, the messages in its channel and
\* whether the UI thread still holds the Sender; the place of the UI thread
\* in end_typing; and the typing_notification calls issued, in order, each
\* with the worker whose begin/end pair it belongs to.
Typing_new == [workers |-> <<>>, issued |-> <<>>]

\* Matrix::typing_notification
typing_notification(t, n, typing) ==
  [t EXCEPT !.issued = Append(@, [worker |-> n, typing |-> typing])]

\* Matrix::begin_typing: the channel and the thread, about to enter its loop
begin_typing(t) ==
  [t EXCEPT !.workers = Append(@, [pc |-> "try_recv", channel |-> 0, sender |-> "held"])]

\* the thread of begin_typing, one step of its loop
typing_worker(t, n) ==
  LET w == t.workers[n] IN
  CASE w.pc = "try_recv" ->
         IF w.channel > 0
         THEN [t EXCEPT !.workers[n].channel = @ - 1, !.workers[n].pc = "returned"]
         ELSE IF w.sender = "dropped"
         THEN [t EXCEPT !.workers[n].pc = "returned"]
         ELSE [t EXCEPT !.workers[n].pc = "typing_notification"]
    [] w.pc = "typing_notification" ->
         [typing_notification(t, n, TRUE) EXCEPT !.workers[n].pc = "sleep"]
    [] w.pc = "sleep" -> [t EXCEPT !.workers[n].pc = "try_recv"]

\* Matrix::end_typing, one statement at a time: send.send(()), then
\* typing_notification(room, false), after which the Sender is dropped
end_typing(t, n) ==
  IF t.workers[n].sender = "held"
  THEN [t EXCEPT !.workers[n].channel = @ + 1, !.workers[n].sender = "sent"]
  ELSE [typing_notification(t, n, FALSE) EXCEPT !.workers[n].sender = "dropped"]

\* ------------------------------------------------- the Matrix facade
\* Matrix::new: the focus key starts at 0 and no task has been spawned;
\* timers are the tasks of focus_event that still sleep, each with the key
\* it was stamped with and the number of the spawn that made it; tasks are
\* the tasks spawned by the commands, in the order of their spawning;
\* client is the OnceCell, room_cache tells whether the cache was populated,
\* rooms is the Vec of the RoomCache and building holds the DecoratedRooms
\* that tasks of timeline_event have built and not put into the cache yet,
\* session_file is the content of the file at Matrix::dirs().1, if it exists,
\* and direct holds the events a command sent before spawning anything
Matrix_new ==
  [focus_key |-> 0, timers |-> {}, spawned |-> 0, tasks |-> <<>>,
   client |-> None, room_cache |-> FALSE, session_file |-> None, direct |-> <<>>,
   rooms |-> <<>>, building |-> {}, typing |-> Typing_new]

\* the application around the facade: the Blur events injected into the
\* event channel and not handled yet, and the terminal's own focus and
\* blur events handled so far (each focus with the timer it armed, or 0);
\* whether the first tick ran Matrix::init and what it found, whether the
\* sign-in form is shown, and how many SyncComplete events were handled;
\* a KeyCombo on its own, with the latest calls of record made on it; the
\* popup; the desktop's notification service: the notifications it shows,
\* each under its id with the room it is about, and whether it ever
\* refused a request; the clock, and a DelayTimer on its own; three events
\* and the results of comparing them, once they were compared; the latest
\* read_to commands the facade was given; what the client knows of each
\* room: its RoomState, "None" for a room get_room does not find, and the
\* number of its latest message; what the latest call on the RoomCache did;
\* the EventHandler, the key whose editor is open, whether the typing
\* notice is on, the Redraw events sent, and what the latest editor key did;
\* the tasks of sas_verification_handler, in the order of their spawning;
\* the body of a reply and what remove_reply_header made of it; a
\* TextInput on its own, with the width of its latest render if no key
\* came after it; the text of the error popup; the room of App::chat
App_new ==
  [channel |-> 0, log |-> <<>>, blur_delay |-> 30, started |-> "no", signin |-> FALSE,
   syncing |-> 0, combo |-> KeyCombo_new(<<"d", "d">>), typed |-> <<>>, popup |-> None,
   desktop |-> [open |-> <<>>, refused |-> FALSE], now |-> 0, timer |-> DelayTimer_new(0),
   compared |-> None, read_log |-> <<>>,
   homeserver |-> [r \in Rooms |-> [state |-> "None", latest |-> 0]],
   cache_log |-> None,
   terminal |-> [handler |-> EventHandler_new, editing |-> None, typing |-> FALSE,
                 redraws |-> 0, sessions |-> 0, last |-> None],
   verifications |-> <<>>, reply |-> [body |-> <<>>, out |-> None],
   input |-> [textinput |-> TextInput_new(TRUE, FALSE), rendered |-> None],
   error |-> None, room |-> ROOM]

\* Matrix::focus_event after Notify::focus_event: nothing more when
\* blur_delay <= 0; otherwise fetch_add(1) + 1 stamps the key and a task
\* holding that key is spawned
Matrix_focus_event(m, delay) ==
  IF delay <= 0 THEN m
  ELSE LET focus_key == m.focus_key + 1
       IN [m EXCEPT !.focus_key = focus_key,
                    !.spawned = @ + 1,
                    !.timers = @ \cup {[id |-> m.spawned + 1, focus_key |-> focus_key]}]

\* Matrix::blur_event before Notify::blur_event: the key is stored as 0
Matrix_blur_event(m) == [m EXCEPT !.focus_key = 0]

\* the task of focus_event wakes after the delay: it sends Event::Blur if
\* its key equals the key loaded now, and ends
timer_expiry(m, t) ==
  [matrix |-> [m EXCEPT !.timers = @ \ {t}], blur |-> t.focus_key = m.focus_key]

\* ------------------------------------------- the tasks of the commands
\* A task is the async block a command hands to rt.spawn. It runs from one
\* await (or call into the file system) to the next in one step; pc names
\* the call it waits for, "spawned" before it first ran, "done" after it
\* returned. trace holds what the task did so far: the events it passed
\* to Matrix::send and, where a later section needs them, other effects.
MatuiEvent(name) == [event |-> name, msg |-> ""]
Error(msg) == [event |-> "Error", msg |-> msg]
ProgressStarted == MatuiEvent("ProgressStarted")
ProgressComplete == MatuiEvent("ProgressComplete")

\* the text of an error that comes from the SDK or the file system
ErrString == "err"

\* rt.spawn of a command's block
Task(command, arg) ==
  [command |-> command, arg |-> arg, pc |-> "spawned", trace |-> <<>>, i |-> 0]

\* Matrix::send on behalf of task t
Matrix_send(t, event) == [t EXCEPT !.trace = Append(@, event)]

at(t, pc) == [t EXCEPT !.pc = pc]

\* if let Err(err) = <call>.await { Matrix::send(Error(err.to_string())) }
send_if_err(t, answer) == IF answer = "Err" THEN Matrix_send(t, Error(ErrString)) ELSE t

\* Matrix::send_text_message
send_text_message(t, answer) ==
  CASE t.pc = "spawned" -> at(Matrix_send(t, ProgressStarted), "room.send")
    [] t.pc = "room.send" -> at(Matrix_send(send_if_err(t, answer), ProgressComplete), "done")

\* Matrix::send_reaction
send_reaction(t, answer) ==
  CASE t.pc = "spawned" -> at(Matrix_send(t, ProgressStarted), "room.send")
    [] t.pc = "room.send" -> at(Matrix_send(send_if_err(t, answer), ProgressComplete), "done")

\* Matrix::redact_event
redact_event(t, answer) ==
  CASE t.pc = "spawned" -> at(Matrix_send(t, ProgressStarted), "room.redact")
    [] t.pc = "room.redact" -> at(Matrix_send(send_if_err(t, answer), ProgressComplete), "done")

\* Matrix::get_room_event followed by as_original: the event is not found
\* (or is no room message), is found redacted, or is found as sent
RoomEvents == {"None", "Redacted", "Original"}

\* Matrix::send_reply
send_reply(t, answer) ==
  CASE t.pc = "spawned" -> at(Matrix_send(t, ProgressStarted), "get_room_event")
    [] t.pc = "get_room_event" ->
         IF answer = "None"
           THEN at(Matrix_send(t, Error("Could not find reply event.")), "done")
         ELSE IF answer = "Redacted" THEN at(t, "done")
         ELSE at(t, "room.send")
    [] t.pc = "room.send" -> at(Matrix_send(send_if_err(t, answer), ProgressComplete), "done")

\* Matrix::replace_event; arg tells whether in_reply_to is Some
replace_event(t, answer) ==
  CASE t.pc = "spawned" -> at(Matrix_send(t, ProgressStarted), "get_room_event")
    [] t.pc = "get_room_event" ->
         IF answer = "None" \/ answer = "Redacted" THEN at(t, "done")
         ELSE IF t.arg THEN at(t, "get_reply_event")
         ELSE at(t, "room.send")
    [] t.pc = "get_reply_event" -> at(t, "room.send")
    [] t.pc = "room.send" -> at(Matrix_send(send_if_err(t, answer), ProgressComplete), "done")

\* Matrix::send_attachements; arg is the number of paths, i the path at hand
send_attachements(t, answer) ==
  CASE t.pc = "spawned" -> at(Matrix_send([t EXCEPT !.i = 1], ProgressStarted), "fs::read")
    [] t.pc = "fs::read" ->
         IF answer = "Err" THEN at(Matrix_send(t, Error(ErrString)), "done")
         ELSE at(t, "room.send_attachment")
    [] t.pc = "room.send_attachment" ->
         LET sent == Matrix_send(send_if_err(t, answer), ProgressComplete)
         IN IF t.i = t.arg THEN at(sent, "done")
            ELSE at(Matrix_send([sent EXCEPT !.i = @ + 1], ProgressStarted), "fs::read")

\* ------------------------------------------- sessions, login and sync
SyncAttempts == 10

\* the next_batch tokens the server hands out
Tokens == {"s1", "s2"}

\* struct FullSession as serde writes it; a file that serde cannot read
FullSession(client_session, user_session, sync_token) ==
  [valid |-> TRUE, client_session |-> client_session, user_session |-> user_session,
   sync_token |-> sync_token]
Unreadable == [valid |-> FALSE, client_session |-> 0, user_session |-> 0, sync_token |-> None]

LoginRequired == MatuiEvent("LoginRequired")
LoginStarted == MatuiEvent("LoginStarted")
LoginComplete == MatuiEvent("LoginComplete")
SyncStarted(sync_type) == [event |-> "SyncStarted", msg |-> sync_type]
SyncComplete == MatuiEvent("SyncComplete")
RoomMember == MatuiEvent("RoomMember")
TimelineBatch == MatuiEvent("TimelineBatch")

\* what a task did besides sending events
Effect(name, result) == [effect |-> name, result |-> result]

did(t, effect) == [t EXCEPT !.trace = Append(@, effect)]

set_task(m, n, t) == [m EXCEPT !.tasks[n] = t]

\* restore_session: the file is read and parsed, the client built and the
\* user session restored; any of these fails, or the client and the
\* sync_token of the file are returned
restore_session(session_file, answer) ==
  IF session_file = None \/ ~session_file[1].valid \/ answer.result = "Err"
    THEN [result |-> "Err", client |-> 0, token |-> None]
  ELSE [result |-> "Ok", client |-> session_file[1].client_session,
        token |-> session_file[1].sync_token]

persist_sync_token_keeping_file(session_file, sync_token, fs) ==
  [result |-> IF session_file = None \/ ~session_file[1].valid \/ fs = "Err" THEN "Err" ELSE "Ok",
   session_file |-> session_file]

\* persist_sync_token: read and parse the file, set sync_token, write it
persist_sync_token(session_file, sync_token, fs) ==
  IF session_file = None \/ ~session_file[1].valid \/ fs = "Err"
    THEN [result |-> "Err", session_file |-> session_file]
  ELSE [result |-> "Ok",
        session_file |-> Some([session_file[1] EXCEPT !.sync_token = Some(sync_token)])]

\* one turn of the loop of sync_once for the task at n, whose i counts the
\* turns made: Ok persists the token and returns it (or the error of
\* persisting), Err goes on to the next turn, and the tenth Err bails out
sync_once(m, n, answer) ==
  LET t == did(m.tasks[n], Effect("client.sync_once",
                                  IF answer.result = "Ok" THEN answer.token ELSE "Err"))
  IN IF answer.result = "Ok"
       THEN LET persisted == persist_sync_token(m.session_file, answer.token, answer.fs)
            IN [matrix |-> [set_task(m, n, t) EXCEPT !.session_file = persisted.session_file],
                result |-> IF persisted.result = "Ok" THEN "Ok" ELSE "Err",
                value |-> IF persisted.result = "Ok" THEN answer.token ELSE ErrString]
     ELSE IF t.i + 1 = SyncAttempts
       THEN [matrix |-> set_task(m, n, [t EXCEPT !.i = @ + 1]),
             result |-> "Err", value |-> "Sync timeout."]
     ELSE [matrix |-> set_task(m, n, [t EXCEPT !.i = @ + 1]), result |-> "Retry", value |-> ""]

\* if let Err(err) = sync_once(..).await { send(Error(..)); return }, as
\* Matrix::init and Matrix::login both go on after a turn of sync_once
after_sync_once(s, n) ==
  LET t == s.matrix.tasks[n]
  IN IF s.result = "Retry" THEN s.matrix
     ELSE IF s.result = "Err"
       THEN set_task(s.matrix, n, at(Matrix_send(t, Error(s.value)), "done"))
     ELSE set_task(s.matrix, n, at(did(t, Effect("sync_once", s.value)), "room_cache.populate"))

\* matrix.client.set(client).expect("could not set client")
set_client(m, n, client) ==
  IF m.client # None THEN set_task(m, n, at(m.tasks[n], "panicked"))
  ELSE [m EXCEPT !.client = Some(client)]

Matrix_init_spawning(m) == [m EXCEPT !.tasks = Append(@, Task("init", FALSE))]

\* Matrix::init: without a session file LoginRequired is sent and nothing
\* is spawned; with one, the block is spawned
Matrix_init(m) ==
  IF m.session_file = None THEN [m EXCEPT !.direct = Append(@, LoginRequired)]
  ELSE [m EXCEPT !.tasks = Append(@, Task("init", FALSE))]

\* the block spawned by Matrix::init
init_task(m, n, answer) ==
  LET t == m.tasks[n]
  IN CASE t.pc = "spawned" ->
            set_task(m, n, at(Matrix_send(t, SyncStarted("Latest")), "restore_session"))
       [] t.pc = "restore_session" ->
            LET restored == restore_session(m.session_file, answer)
            IN IF restored.result = "Err"
                 THEN set_task(m, n, at(Matrix_send(t, Error(ErrString)), "done"))
               ELSE LET set == set_client(
                                 set_task(m, n, did(t, Effect("restore_session", restored.token))),
                                 n, restored.client)
                    IN IF set.tasks[n].pc = "panicked" THEN set
                       ELSE set_task(set, n, at(set.tasks[n], "sync_once"))
       [] t.pc = "sync_once" -> after_sync_once(sync_once(m, n, answer), n)
       [] t.pc = "room_cache.populate" ->
            [set_task(m, n, at(Matrix_send(did(t, Effect("populate", "")), SyncComplete), "done"))
               EXCEPT !.room_cache = TRUE]

\* login: the client is built and the user logs in, then the FullSession
\* with no sync_token is written; n stands for the random database path,
\* the passphrase and the session the server gave
login(m, n, answer) ==
  IF answer.result = "Err" \/ answer.fs = "Err"
    THEN [result |-> "Err", session_file |-> m.session_file]
  ELSE [result |-> "Ok", session_file |-> Some(FullSession(n, n, None))]

\* the block spawned by Matrix::login
login_task(m, n, answer) ==
  LET t == m.tasks[n]
  IN CASE t.pc = "spawned" -> set_task(m, n, at(Matrix_send(t, LoginStarted), "login"))
       [] t.pc = "login" ->
            LET logged == login(m, n, answer)
            IN IF logged.result = "Err"
                 THEN set_task(m, n, at(Matrix_send(t, Error(ErrString)), "done"))
               ELSE LET set == set_client(
                                 [set_task(m, n, did(t, Effect("login", "")))
                                    EXCEPT !.session_file = logged.session_file],
                                 n, n)
                    IN IF set.tasks[n].pc = "panicked" THEN set
                       ELSE set_task(set, n,
                              at(Matrix_send(Matrix_send(set.tasks[n], LoginComplete),
                                             SyncStarted("Initial")), "sync_once"))
       [] t.pc = "sync_once" -> after_sync_once(sync_once(m, n, answer), n)
       [] t.pc = "room_cache.populate" ->
            [set_task(m, n, at(Matrix_send(did(t, Effect("populate", "")), SyncComplete),
                               "get_user_identity"))
               EXCEPT !.room_cache = TRUE]
       [] t.pc = "get_user_identity" -> set_task(m, n, at(t, "done"))

sync_task_stopping_at_error(m, n, answer) ==
  LET t == m.tasks[n]
  IN CASE t.pc = "spawned" -> set_task(m, n, at(t, "sync_with_result_callback"))
       [] t.pc = "sync_with_result_callback" ->
            IF answer.result = "Err"
              THEN set_task(m, n, at([t EXCEPT !.i = @ + 1, !.arg = <<"Err">>], "done"))
            ELSE LET persisted == persist_sync_token(m.session_file, answer.token, answer.fs)
                 IN [set_task(m, n, [t EXCEPT !.i = @ + 1,
                                              !.arg = <<"Ok", answer.token, persisted.result>>])
                       EXCEPT !.session_file = persisted.session_file]

\* the callback Matrix::sync hands to sync_with_result_callback, called
\* with the result of each batch; it always answers LoopCtrl::Continue.
\* The task keeps the number of batches in i and the last result in arg.
sync_task(m, n, answer) ==
  LET t == m.tasks[n]
  IN CASE t.pc = "spawned" -> set_task(m, n, at(t, "sync_with_result_callback"))
       [] t.pc = "sync_with_result_callback" ->
            IF answer.result = "Err"
              THEN set_task(m, n, [t EXCEPT !.i = @ + 1, !.arg = <<"Err">>])
            ELSE LET persisted == persist_sync_token(m.session_file, answer.token, answer.fs)
                 IN [set_task(m, n, [t EXCEPT !.i = @ + 1,
                                              !.arg = <<"Ok", answer.token, persisted.result>>])
                       EXCEPT !.session_file = persisted.session_file]

\* the block spawned by Matrix::fetch_room_member
fetch_room_member(m, n, answer) ==
  LET t == m.tasks[n]
  IN CASE t.pc = "spawned" -> set_task(m, n, at(t, "room.get_member"))
       [] t.pc = "room.get_member" ->
            IF answer.result = "Some" THEN set_task(m, n, at(Matrix_send(t, RoomMember), "done"))
            ELSE set_task(m, n, at(did(t, Effect("room.get_member", answer.result)), "panicked"))

\* the block spawned by Matrix::fetch_messages
fetch_messages(m, n, answer) ==
  LET t == m.tasks[n]
  IN CASE t.pc = "spawned" -> set_task(m, n, at(Matrix_send(t, ProgressStarted), "room.messages"))
       [] t.pc = "room.messages" ->
            IF answer.result = "Err"
              THEN set_task(m, n, at(Matrix_send(t, Error(ErrString)), "done"))
            ELSE IF answer.result = "Undeserializable"
              THEN set_task(m, n, at(did(t, Effect("deserialize_event", "Err")), "panicked"))
            ELSE set_task(m, n,
                   at(Matrix_send(Matrix_send(t, ProgressComplete), TimelineBatch), "done"))

\* ----------------------------------------------- the popup of the App
\* App::set_popup
set_popup(a, popup) == [a EXCEPT !.popup = Some(popup)]

\* App::close_popup
close_popup(a) == [a EXCEPT !.popup = None]

\* Matrix::redact_event: spawns the block that redacts the event
Matrix_redact_event(m, room, id) ==
  [m EXCEPT !.tasks = Append(@, Task("redact_event", [room |-> room, id |-> id]))]

\* Popup::key_event
Popup_key_event(popup, input) ==
  IF popup.type = "Confirm" THEN Confirm_key_event(popup, input)
  ELSE [popup |-> popup, result |-> Ignored]

\* the closure of a consumed key runs on the App
run_closure(s, closure) ==
  CASE closure.op = "nothing" -> s
    [] closure.op = "close_popup" -> [s EXCEPT !.app = close_popup(@)]
    [] closure.op = "set_popup" -> [s EXCEPT !.app = set_popup(@, closure.popup)]
    [] closure.op = "redact_event" ->
         [s EXCEPT !.matrix = Matrix_redact_event(@, closure.room, closure.id),
                   !.app = close_popup(@)]

\* a key reaches the App: the popup, when there is one, gets the key and
\* the chat does not; otherwise the chat gets it (none of the keys here is
\* a global key); the closure of a consumed key is run at once
handle_key_event(s, input) ==
  IF s.app.popup # None
    THEN LET h == Popup_key_event(s.app.popup[1], input)
             held == [s EXCEPT !.app.popup = Some(h.popup)]
         IN IF h.result.type = "Consumed" THEN run_closure(held, h.result.closure) ELSE held
  ELSE LET h == key_event(s.chat, input)
           heard == [s EXCEPT !.chat = h.chat]
       IN IF h.result.type = "Consumed" THEN run_closure(heard, h.result.closure) ELSE heard

\* ------------------------------------------------------------- the state
VARIABLES
  chat,       \* the Chat of the selected room (chat.rs)
  pending,    \* fetch_messages requests the facade has not answered yet
  scenario,   \* which events the server holds for this run
  notify,     \* the Notify of the Matrix facade (notify.rs)
  settings,   \* the muted rooms and the overrides (settings.rs)
  matrix,     \* the Matrix facade and the tasks it spawned (matrix/matrix.rs)
  app         \* the event channel, the terminal and the widgets around the chat

chat_vars == <<chat, pending, scenario>>
notify_vars == <<notify, settings>>
facade_vars == <<matrix, app>>
vars == <<chat, pending, scenario, notify, settings, matrix, app>>

\* --------------------------------------------------------------- inputs
\* origin timestamps of events range over 1..MaxEventTs
MaxEventTs == 2
\* the length of the reply chain the server holds
ChainLen == 6

text(s) == [msgtype |-> "text", text |-> s]
NoBody == [msgtype |-> "none", text |-> <<>>]

\* events without their origin timestamp
Message_(id, sender, body) ==
  [id |-> id, room |-> ROOM, sender |-> sender, type |-> "message", rel |-> "none",
   target |-> 0, body |-> body, key |-> ""]
Reply_(id, sender, target, body) == [Message_(id, sender, body) EXCEPT !.rel = "reply", !.target = target]
Edit_(id, sender, target, body) == [Message_(id, sender, body) EXCEPT !.rel = "replace", !.target = target]
Reaction_(id, sender, target, key) ==
  [Message_(id, sender, NoBody) EXCEPT !.type = "reaction", !.target = target, !.key = key]
Redaction_(id, sender, target) ==
  [Message_(id, sender, NoBody) EXCEPT !.type = "redaction", !.target = target]

\* the id of an event the server never delivers
MissingId == 9

\* what the server holds in each scenario
Templates(sc) ==
  CASE sc = "chain" ->
         {Message_(1, "u1", text(<<"A", "b">>))}
           \cup {Reply_(i, "u1", i - 1, text(<<"b">>)) : i \in 2..ChainLen}
           \cup {[Message_(ChainLen + 1, "u2", text(<<"a">>)) EXCEPT !.room = "S"]}
    [] sc = "edit" ->
         {Message_(1, "u1", text(<<"A", "b">>)),
          Edit_(2, "u1", 1, text(<<"b">>)),
          Edit_(3, "u1", 1, text(<<"a", "b", "a">>)),
          Reply_(4, "u1", 1, text(<<"b">>)),
          Edit_(5, "u1", 4, text(<<"B", "a">>))}
    [] sc = "react" ->
         {Message_(1, "u1", text(<<"A", "b">>)),
          Reaction_(2, "u1", 1, "a"),
          Reaction_(3, "u1", 1, "b"),
          Reaction_(4, "u1", 1, "a"),
          Reaction_(5, "u1", 1, "b"),
          Reaction_(6, "u1", 1, "a")}
    [] sc = "redact" ->
         {Message_(1, "u1", text(<<"A", "b">>)),
          Reply_(2, "u1", 1, text(<<"b">>)),
          Reaction_(3, "u1", 2, "a"),
          Reaction_(4, "u2", 2, "a"),
          Redaction_(5, "u1", 3),
          Redaction_(6, "u1", 2)}
    [] sc = "read" ->
         {Message_(1, "u1", text(<<"A", "b">>)),
          Message_(2, "u1", text(<<"b">>)),
          Reply_(3, "u1", 1, text(<<"a">>))}
    [] sc = "scroll" ->
         {Message_(1, "u1", text(<<"A", "b">>)),
          Reply_(2, "u1", 1, text(<<">", " ", "a", "\n", "\n", "b">>)),
          Reply_(3, "u1", 1, text(<<"b">>))}
    [] sc = "delete" ->
         {Message_(1, "u1", text(<<"a">>)),
          Reply_(2, "u2", 1, text(<<"b">>))}
    [] sc = "editor" ->
         {Message_(1, "u1", text(<<"a">>)),
          Message_(2, "u1", [msgtype |-> "image", text |-> <<"b">>])}
    [] sc = "orphan" ->
         {Message_(1, "u1", text(<<"a">>)),
          Reply_(2, "u2", 1, text(<<"b">>)),
          Message_(3, "u1", [msgtype |-> "emote", text |-> <<"a">>]),
          Reply_(4, "u2", 3, [msgtype |-> "image", text |-> <<"b">>]),
          Reply_(5, "u1", MissingId, text(<<"b">>))}
    [] sc = "window" ->
         {Message_(1, "u1", text(<<"a">>)),
          Message_(2, "u1", text(<<"b">>))}
    [] sc = "page" ->
         {Message_(1, "u1", text(<<"A", "b">>)),
          Reply_(2, "u1", 1, text(<<"b">>)),
          Edit_(3, "u1", 1, text(<<"b">>)),
          Reaction_(4, "u1", 1, "a")}

\* the events the server can deliver now: an event already stored keeps its
\* origin timestamp, any other carries any timestamp
Deliverable(c, sc) ==
  {e \in {[id |-> t.id, ts |-> ts, room |-> t.room, sender |-> t.sender, type |-> t.type,
           rel |-> t.rel, target |-> t.target, body |-> t.body, key |-> t.key] :
            t \in Templates(sc), ts \in 1..MaxEventTs} :
     \A i \in DOMAIN c.events : c.events[i].id = e.id => c.events[i].ts = e.ts}

\* the batches the server can answer with: a page of up to MaxBatch events,
\* newest first (Direction::Backward), and a cursor for the page before them
\* unless the history ends here
RECURSIVE SubsetsUpTo(_, _)
SubsetsUpTo(S, n) ==
  IF n = 0 THEN {{}}
  ELSE Then(SubsetsUpTo(S, n - 1), LAMBDA smaller :
            smaller \cup {q \cup {x} : q \in smaller, x \in S})

RECURSIVE Descending(_)
Descending(S) ==
  IF S = {} THEN <<>>
  ELSE Then(CHOOSE x \in S : \A y \in S \ {x} : cmp(y, x) = "Less", LAMBDA top :
       Then(S \ {top}, LAMBDA rest : <<top>> \o Descending(rest)))

Batches(c, sc) ==
  Then(Deliverable(c, sc), LAMBDA deliverable :
  {[room |-> ROOM, events |-> Descending(es), cursor |-> cur] :
     es \in {q \in SubsetsUpTo(deliverable, MaxBatch) :
               \A x, y \in q : x.id = y.id => x = y},
     cur \in {None, Some("c")}})

\* the fetch_messages requests among the commands a handler issued
Fetches(c) == Cardinality({i \in DOMAIN c.out : c.out[i].cmd = "fetch_messages"})

\* a handler starts with no commands issued
Begin(c) == [c EXCEPT !.out = <<>>]

\* a handler h ran on the chat: its state and the requests it issued
Handled(h) ==
  /\ ~chat.panicked
  /\ chat' = Begin(h)
  /\ pending' = pending + Fetches(h)
  /\ UNCHANGED <<scenario, notify_vars, facade_vars>>

\* ------------------------------------------------------------- actions
\* MatuiEvent::Timeline reaches Chat::timeline_event
TimelineEvent ==
  \E e \in Deliverable(chat, scenario) : \E h \in {timeline_event(chat, e)} : Handled(h)

\* the facade answers a fetch_messages request: Chat::batch_event
BatchEvent ==
  /\ pending > 0
  /\ ~chat.panicked
  /\ \E b \in Batches(chat, scenario) : \E h \in {batch_event(chat, b)} :
       /\ chat' = Begin(h)
       /\ pending' = pending - 1 + Fetches(h)
       /\ UNCHANGED <<scenario, notify_vars, facade_vars>>

\* the contents of a receipt event: one Read receipt, with or without a
\* timestamp, or the receipts of two users who read up to the same time
ReceiptContents ==
  {<<[user_id |-> u, ts |-> ts]>> :
     u \in Users, ts \in {None} \cup {Some(t) : t \in 1..MaxTs}}
  \cup {<<[user_id |-> "u1", ts |-> Some(t)], [user_id |-> "u2", ts |-> Some(t)]>> :
          t \in 1..MaxTs}

\* MatuiEvent::Receipt reaches Chat::receipt_event
ReceiptEvent ==
  \E room \in Rooms, content \in ReceiptContents :
    \E h \in {receipt_event(chat, room, content)} : Handled(h)

\* the terminal draws the chat
Render ==
  \E clamps \in BOOLEAN : \E h \in {render(chat, clamps)} : Handled(h)

\* the keys that move the selection, pressed while the list shows lines
KeyK == chat.line_types # <<>> /\ \E h \in {key_k(chat)} : Handled(h)
KeyJ == chat.line_types # <<>> /\ \E h \in {key_j(chat)} : Handled(h)
KeyG == chat.line_types # <<>> /\ \E h \in {key_G(chat)} : Handled(h)

\* the Enter key
KeyEnter == \E h \in {key_enter(chat)} : Handled(h)

\* the terms the user searches for; the empty term ends the search
SearchTerms == {<<>>, <<"a">>, <<"b">>}

\* MatuiEvent::Search reaches Chat::search_event
SearchEvent ==
  \E search_term \in SearchTerms : \E h \in {search_event(chat, search_term)} : Handled(h)

\* the events the sync loop hands to Notify::timeline_event
NotifyEvents ==
  {[id |-> t.id, ts |-> 1, room |-> room, sender |-> t.sender, type |-> t.type,
    rel |-> t.rel, target |-> t.target, body |-> t.body, key |-> t.key] :
     room \in Rooms,
     t \in {Message_(1, u, text(<<"a">>)) : u \in Users}
            \cup {Reply_(2, "u1", 1, text(<<"b">>)), Edit_(3, "u1", 1, text(<<"b">>)),
                  Reaction_(4, "u1", 1, "a"), Message_(5, "u1", NoBody)}}

\* Matrix::timeline_event runs Notify::timeline_event
NotifyTimelineEvent ==
  \E event \in NotifyEvents, force \in BOOLEAN, answer \in Answers, handle_id \in 1..MaxHandle :
    \E h \in {Notify_timeline_event(notify, settings, event, force, answer, handle_id)} :
      /\ notify' = h.notify
      /\ UNCHANGED <<chat_vars, settings, facade_vars>>

\* Event::Focus and Event::Blur reach Matrix::focus_event and Matrix::blur_event
NotifyFocusEvent == notify' = Notify_focus_event(notify) /\ UNCHANGED <<chat_vars, settings, facade_vars>>
NotifyBlurEvent == notify' = Notify_blur_event(notify) /\ UNCHANGED <<chat_vars, settings, facade_vars>>

\* Matrix::room_visit_event: a room is selected, or read by the local user
RoomVisitEvent ==
  \E room \in Rooms :
    notify' = Notify_room_visit_event(notify, room) /\ UNCHANGED <<chat_vars, settings, facade_vars>>

\* the 'm' key of a chat
ToggleMute ==
  \E room \in Rooms :
    settings' = toggle_mute(settings, room) /\ UNCHANGED <<chat_vars, notify, facade_vars>>

InitChat(scenarios, builds) ==
  /\ scenario \in scenarios
  /\ \E checked \in builds : chat = try_new(checked)
  /\ pending = 1
  /\ notify = Notify_default
  /\ settings = Settings_default({})
  /\ matrix = Matrix_new
  /\ app = App_new

\* reply chains: events arrive live, in any order and with any timestamps
InitReplies == InitChat({"chain"}, {FALSE})
NextReplies == TimelineEvent
SpecReplies == InitReplies /\ [][NextReplies]_vars

\* edits of a message and of a reply
InitEdits == InitChat({"edit"}, {FALSE})
NextEdits == TimelineEvent
SpecEdits == InitEdits /\ [][NextEdits]_vars

\* reactions and redactions
InitReactions == InitChat({"react", "redact"}, {FALSE})
NextReactions == TimelineEvent
SpecReactions == InitReactions /\ [][NextReactions]_vars

\* read receipts on messages and reply chains
InitReceipts == InitChat({"read"}, {FALSE})
NextReceipts == TimelineEvent \/ ReceiptEvent
SpecReceipts == InitReceipts /\ [][NextReceipts]_vars

\* scrolling and searching the rendered list
InitScroll == InitChat({"scroll"}, {FALSE})
NextScroll == TimelineEvent \/ Render \/ KeyK \/ KeyJ \/ KeyG \/ KeyEnter \/ SearchEvent
SpecScroll == InitScroll /\ [][NextScroll]_vars

\* notifications: the gate of Notify and the mute settings
InitNotify ==
  /\ scenario = "notify"
  /\ chat = try_new(FALSE)
  /\ pending = 0
  /\ notify = Notify_default
  /\ \E config_muted \in SUBSET Rooms : settings = Settings_default(config_muted)
  /\ matrix = Matrix_new
  /\ app = App_new
NextNotify ==
  NotifyTimelineEvent \/ NotifyFocusEvent \/ NotifyBlurEvent \/ RoomVisitEvent \/ ToggleMute
SpecNotify == InitNotify /\ [][NextNotify]_vars

\* pagination: events arrive live and in the batches that answer the fetches
InitBatch == InitChat({"page"}, {FALSE})
NextBatch == TimelineEvent \/ BatchEvent
SpecBatch == InitBatch /\ [][NextBatch]_vars

\* ------------------------------------------------- views of the tree
\* the ids of the messages of a list and of all their replies, in list order
RECURSIVE tree_ids(_)
tree_ids(messages) ==
  IF messages = <<>> THEN <<>>
  ELSE <<Head(messages).id>> \o tree_ids(Head(messages).replies) \o tree_ids(Tail(messages))

NoDuplicates(s) == \A i, j \in DOMAIN s : i # j => s[i] # s[j]

\* the messages of a list and all their replies, in list order
RECURSIVE tree_messages(_)
tree_messages(messages) ==
  IF messages = <<>> THEN <<>>
  ELSE <<Head(messages)>> \o tree_messages(Head(messages).replies)
         \o tree_messages(Tail(messages))

\* the message of the tree with the given id
message_at(messages, id) ==
  CHOOSE m \in Range(tree_messages(messages)) : m.id = id

\* the tree the rebuild derives from the stored events, before receipts,
\* sender names and merged reactions are put on it
raw_tree(c) == ingest(<<>>, c.events)

\* the index of the stored event with the given id, 0 if there is none
event_index(c, id) ==
  IF \E i \in DOMAIN c.events : c.events[i].id = id
  THEN CHOOSE i \in DOMAIN c.events : c.events[i].id = id
  ELSE 0

\* the batches made of events the chat already holds
StoredBatches(c) ==
  Then(Range(c.events), LAMBDA stored :
  {[room |-> ROOM, events |-> Descending(es), cursor |-> cur] :
     es \in SubsetsUpTo(stored, MaxBatch) \ {{}},
     cur \in {None, Some("c")}})

\* ------------------------------------------------------------------ C1
\* C1: delivering an event whose id is already in the event set, through
\* timeline_event or in a batch through batch_event, leaves the event set as
\* it was and the tree with the same messages: neither grows.
C1_RedeliveryAddsNothing ==
  /\ \A e \in Range(chat.events) :
       LET h == timeline_event(chat, e) IN
       /\ h.events = chat.events
       /\ tree_ids(h.messages) = tree_ids(chat.messages)
  /\ \A b \in StoredBatches(chat) :
       LET h == batch_event(chat, b) IN
       /\ h.events = chat.events
       /\ tree_ids(h.messages) = tree_ids(chat.messages)

\* a message, its reply, its edit and its reaction are all stored, so each
\* kind of event is delivered a second time
C1_AllStored ==
  /\ Len(chat.events) = 4
  /\ Len(tree_ids(chat.messages)) = 2
  /\ StoredBatches(chat) # {}

\* ------------------------------------------------------------------ C2
\* C2: after any sequence of deliveries no two messages of the tree, at any
\* depth, have the same event id.  (The tree is rebuilt from the event set
\* by every handler, so the trees live deliveries reach are the trees
\* batches reach.)
C2_UniqueIds == NoDuplicates(tree_ids(chat.messages))

\* the whole chain is in the tree, part of it as orphans at the top level
C2_WholeChain ==
  /\ Len(tree_ids(chat.messages)) = ChainLen
  /\ Len(chat.messages) >= 2
  /\ \E i \in DOMAIN chat.messages : chat.messages[i].replies # <<>>

\* ------------------------------------------------------------------ C3
\* an id no event of the scenario has, for the events a formula applies itself
FreshId ==
  LET ids == {t.id : t \in Templates(scenario)}
  IN 1 + CHOOSE i \in ids : \A j \in ids : j <= i

\* bodies for the replacements a formula applies itself
NewBodies == {text(<<"a">>), text(<<"B", "b">>)}

\* the replacement events the rebuild applies to message id: those the
\* ordered set places after the message's own event
applied_edits(c, id) ==
  LET after(e) == /\ e.type = "message" /\ e.rel = "replace" /\ e.target = id
                  /\ event_index(c, e.id) > event_index(c, id)
  IN SelectSeq(c.events, after)

events_with_key(c, id, key) ==
  LET has_key(r) == r.body = key
  IN SelectSeq(message_at(raw_tree(c), id).reactions, has_key)

\* message m holds one Reaction per distinct key, and that Reaction holds
\* every reaction event with its key
merged_per_key(c, m) ==
  /\ \A i, j \in DOMAIN m.reactions : i # j => m.reactions[i].body # m.reactions[j].body
  /\ \A i \in DOMAIN m.reactions :
       Len(m.reactions[i].events) = Len(events_with_key(c, m.id, m.reactions[i].body))
  /\ \A r \in Range(message_at(raw_tree(c), m.id).reactions) :
       \E i \in DOMAIN m.reactions : m.reactions[i].body = r.body

\* C4: every message of the rebuilt tree holds one Reaction per distinct
\* key, whose event count is the number of reaction events with that key; a
\* message that got the keys a, b, a, b, a holds two Reactions, of 3 and 2
\* events, whatever the order of the events.
C4_OneReactionPerKey ==
  \A m \in Range(tree_messages(chat.messages)) :
    /\ merged_per_key(chat, m)
    /\ Len(message_at(raw_tree(chat), m.id).reactions) = 5 /\ scenario = "react"
         => /\ Len(m.reactions) = 2
            /\ {Len(m.reactions[i].events) : i \in DOMAIN m.reactions} = {2, 3}

\* what the code does keep: the same for the messages of the top-level list
C4_TopLevelMerged ==
  \A i \in DOMAIN chat.messages :
    /\ merged_per_key(chat, chat.messages[i])
    /\ Len(message_at(raw_tree(chat), chat.messages[i].id).reactions) = 5 /\ scenario = "react"
         => /\ Len(chat.messages[i].reactions) = 2
            /\ {Len(chat.messages[i].reactions[k].events) :
                  k \in DOMAIN chat.messages[i].reactions} = {2, 3}

\* a top-level message holds all five reactions
C4_FiveReactions ==
  /\ scenario = "react"
  /\ \E i \in DOMAIN chat.messages :
       Len(message_at(raw_tree(chat), chat.messages[i].id).reactions) = 5

\* ------------------------------------------------------------------ C5
\* the reaction events of a tree: <<message id, key, reaction event id>>
reaction_triples(messages) ==
  UNION {UNION {{<<m.id, m.reactions[i].body, m.reactions[i].events[j].id>> :
                   j \in DOMAIN m.reactions[i].events} :
                i \in DOMAIN m.reactions} :
         m \in Range(tree_messages(messages))}

\* the messages of a tree one by one, without their replies
flat(messages) ==
  [i \in 1..Len(tree_messages(messages)) |-> [tree_messages(messages)[i] EXCEPT !.replies = <<>>]]

\* the same without their reactions
unreacted(messages) ==
  [i \in 1..Len(flat(messages)) |-> [flat(messages)[i] EXCEPT !.reactions = <<>>]]

\* the keys of a message's Reactions, in order
keys(reactions) == [i \in 1..Len(reactions) |-> reactions[i].body]

\* the redaction of target, as the rebuild meets it
redaction_of(target) == [Redaction_(FreshId, "u1", target) EXCEPT !.ts = MaxEventTs]

\* the effect of redacting the message x of tree T
message_redacted(T, x) ==
  LET R == apply_timeline_event(T, redaction_of(x), 0).messages
      gone == Range(tree_ids(<<message_at(T, x)>>))
      stays(m) == m.id \notin gone
  IN /\ x \notin Range(tree_ids(R))
     /\ \A t \in reaction_triples(R) : t[1] # x
     /\ flat(R) = SelectSeq(flat(T), stays)

\* the effect of redacting the reaction event x of tree T
reaction_redacted(T, x) ==
  LET R == apply_timeline_event(T, redaction_of(x), 0).messages
      others(r) == \E j \in DOMAIN r.events : r.events[j].id # x
  IN /\ reaction_triples(R) = {t \in reaction_triples(T) : t[3] # x}
     /\ unreacted(R) = unreacted(T)
     /\ \A m \in Range(tree_messages(R)) :
          /\ \A i \in DOMAIN m.reactions : m.reactions[i].events # <<>>
          /\ keys(m.reactions) = keys(SelectSeq(message_at(T, m.id).reactions, others))

\* C5: applying a redaction whose target is a message of the tree removes
\* that message, with its reactions (and the replies under it), and leaves
\* the other messages as they were; applying a redaction whose target is a
\* reaction event removes that event alone, removes its Reaction exactly when
\* it held no other event, leaves no Reaction without events and changes no
\* other message or reaction event.  In the rebuilt tree no message and no
\* reaction event remains that a redaction ordered after it targets.
C5_Redaction ==
  /\ \A T \in {raw_tree(chat), chat.messages} :
       /\ \A x \in Range(tree_ids(T)) : message_redacted(T, x)
       /\ \A t \in reaction_triples(T) : reaction_redacted(T, t[3])
  /\ \A i \in DOMAIN chat.events :
       LET d == chat.events[i] IN
       d.type = "redaction" /\ event_index(chat, d.target) \in 1..(i - 1)
         => /\ d.target \notin Range(tree_ids(chat.messages))
            /\ \A t \in reaction_triples(chat.messages) : t[3] # d.target

\* the redaction of one of the reply's two reactions has been applied: the
\* reply keeps the other one
C5_ReactionRedacted ==
  /\ scenario = "redact"
  /\ event_index(chat, 5) > event_index(chat, 3)
  /\ event_index(chat, 3) > 0
  /\ reaction_triples(chat.messages) = {<<2, "a", 4>>}

\* the redaction of a message that carries reactions has been applied
C5_MessageRedacted ==
  /\ scenario = "redact"
  /\ event_index(chat, 6) > event_index(chat, 4)
  /\ event_index(chat, 4) > event_index(chat, 2)
  /\ event_index(chat, 2) > 0
  /\ tree_ids(chat.messages) = <<1>>

\* ---------------------------------------------------------------------
\* C6: read receipts

\* the lists Message::apply_receipts walks: the list it is given and,
\* with a fresh copy of the receipts, the replies of each of its messages
RECURSIVE chains_under(_)
chains_under(list) ==
  IF list = <<>> THEN {}
  ELSE {list} \cup UNION {chains_under(list[i].replies) : i \in DOMAIN list}

\* the lists of the view, the top-level list in the order it is built in
\* (make_message_list reverses it last)
chains(c) == chains_under(Reverse(c.messages))

\* the positions of a list whose message shows the user's receipt
carriers(list, user_id) ==
  {i \in DOMAIN list : \E k \in DOMAIN list[i].receipts : list[i].receipts[k].id = user_id}

\* the last position of the list whose message was sent before the marker
last_sent_before(list, ts) ==
  LET older == {i \in DOMAIN list : list[i].sent < ts} IN
  IF older = {} THEN {} ELSE {CHOOSE i \in older : \A o \in older : o <= i}

\* the positions of the newest messages sent at or before the marker
newest_sent_by(list, ts) ==
  {i \in DOMAIN list :
     /\ list[i].sent <= ts
     /\ \A o \in DOMAIN list : list[o].sent <= ts => list[o].sent <= list[i].sent}

RECURSIVE placed(_, _, _)
placed(list, level, owner) ==
  UNION {{<<list[i].id, level, owner>>} \cup placed(list[i].replies, level + 1, list[i].id) :
         i \in DOMAIN list}

\* the id the stored event of a message replies to
in_reply_to(c, id) == c.events[event_index(c, id)].target

\* C7: no message sits more than four levels below the top-level list;
\* a message below the top level sits in the replies of the message it
\* replies to when that message is at most three levels down, and, when
\* the message it replies to is four levels down, next to it in the same
\* list; and every reply that arrives after its parent is in the tree.
C7_ReplyDepth ==
  LET P == placed(chat.messages, 0, 0) IN
  /\ \A p \in P : p[2] <= MaxDepth + 1
  /\ \A p \in P : p[2] >= 1 =>
       \E q \in P :
         /\ q[1] = in_reply_to(chat, p[1])
         /\ \/ q[2] <= MaxDepth /\ p[2] = q[2] + 1 /\ p[3] = q[1]
            \/ q[2] = MaxDepth + 1 /\ p[2] = q[2] /\ p[3] = q[3]
  /\ \A i, j \in DOMAIN chat.events :
       (i < j /\ chat.events[j].rel = "reply" /\ chat.events[j].target = chat.events[i].id)
         => \E p \in P : p[1] = chat.events[j].id

\* a reply to a message four levels down sits next to it
C7_SiblingAtDepthFour ==
  \E p, q \in placed(chat.messages, 0, 0) :
    /\ q[2] = MaxDepth + 1 /\ p[2] = MaxDepth + 1
    /\ in_reply_to(chat, p[1]) = q[1]
    /\ p[3] = q[3]

\* ---------------------------------------------------------------------
\* C8: the selection across the arrival of older events

\* the chat as the terminal has just drawn it
Rendered(c) == ~c.panicked /\ \E clamps \in BOOLEAN : render(c, clamps) = c

\* the selection rests on the message with the given id
selects(c, id) == get_bookmark(c) # None /\ get_bookmark(c)[1].message_id = id

\* the events that can arrive and are older than the message with the given id
older_than(c, sc, id) ==
  {e \in Deliverable(c, sc) : e.ts < message_at(c.messages, id).sent}

\* the chat drawn again after a handler has run, if the handler left the
\* bookmark of the given message; otherwise nothing is to be said
stays(handled, id) ==
  (handled.bookmark # None /\ handled.bookmark[1].message_id = id) =>
    \A clamps \in BOOLEAN : selects(render(handled, clamps), id)

\* C8: when a message is selected in the drawn chat and events older than
\* it arrive, one by timeline_event or several by batch_event, and the
\* handler has put the id of the message in the bookmark, the selection
\* of the chat drawn again rests on the same message.
C8_SelectionStays ==
  (Rendered(chat) /\ get_bookmark(chat) # None) =>
    LET id == get_bookmark(chat)[1].message_id
        older == older_than(chat, scenario, id)
    IN /\ \A e \in older : stays(timeline_event(chat, e), id)
       /\ \A b \in Batches(chat, scenario) :
            Range(b.events) \subseteq older => stays(batch_event(chat, b), id)

\* C8, where the parent of the selected message is stored already: the
\* selection stays.
C8_StaysUnderStoredParent ==
  (Rendered(chat) /\ get_bookmark(chat) # None /\ event_index(chat, 1) # 0) =>
    LET id == get_bookmark(chat)[1].message_id
        older == older_than(chat, scenario, id)
    IN /\ \A e \in older : stays(timeline_event(chat, e), id)
       /\ \A b \in Batches(chat, scenario) :
            Range(b.events) \subseteq older => stays(batch_event(chat, b), id)

\* ---------------------------------------------------------------------
\* C9: searching and ending the search

\* the list of a chat no search was ever started in
never_searched(c) == make_message_list(c.events, c.members, c.receipts, <<>>)

\* search_event(t) and then search_event("")
round_trip(c, t) == search_event(search_event(c, t), <<>>)

\* the chat, and the chat as it is once a batch has left it a cursor to
\* fetch more history with
fetching_or_not(c) == {c, [c EXCEPT !.next_cursor = Some("c"), !.fetching = FALSE]}

\* the selected line, None counting as line 0
selected_line(c) == IF c.list_state.selected = None THEN 0 ELSE c.list_state.selected[1]

\* C9 as the documentation states it: in a drawn chat that is not
\* searching, search_event(t) followed by search_event("") leaves the
\* message list, the window, the bookmark and the selection as they were.
\* It does not hold.
C9_SearchRoundTrip ==
  (chat.search_term = <<>> /\ Rendered(chat)) =>
    \A t \in SearchTerms, c \in fetching_or_not(chat) :
      LET r == round_trip(c, t) IN
      /\ r.messages = c.messages
      /\ r.window = c.window
      /\ r.bookmark = c.bookmark
      /\ selected_line(r) = selected_line(c)
      /\ r.list_state.offset = c.list_state.offset

\* C9, amended: search_event(t) followed by search_event("") leaves the
\* message list the chat would have had without any search, whatever
\* history was asked for in between, and resets the rest to the newest
\* message: selection 0, offset 0, no bookmark, and the window from 0 to
\* the smaller of the length of the list and 200.
C9_SearchResets ==
  ~chat.panicked =>
    \A t \in SearchTerms, c \in fetching_or_not(chat) :
      LET r == round_trip(c, t) IN
      /\ ~r.panicked
      /\ r.search_term = <<>>
      /\ r.events = c.events
      /\ r.messages = never_searched(c)
      /\ r.list_state = [selected |-> Some(0), offset |-> 0]
      /\ r.bookmark = None
      /\ r.window = [start |-> 0, end |-> Min(Len(r.messages), FirstWindow)]

\* a search shows part of the messages, and the selection has moved up
C9_SearchingScrolled ==
  /\ Rendered(chat)
  /\ chat.search_term # <<>>
  /\ chat.messages # <<>>
  /\ Len(tree_ids(chat.messages)) < Len(tree_ids(never_searched(chat)))
  /\ selected_line(chat) > 0

\* ---------------------------------------------------------------------
\* C10: the gate of the notifications

\* the sender is not the local user and the room is not muted, by the
\* config or by an override
from_other_unmuted(s, event) ==
  /\ event.sender # ME
  /\ ~(event.room \in s.overrides_muted
         \/ (event.room \notin s.overrides_unmuted /\ event.room \in s.muted))

\* the three conditions of the gate
passes_gate(n, s, event) ==
  from_other_unmuted(s, event) /\ ~(n.focus /\ n.room_id = Some(event.room))

\* the events Notify makes a message of, with every answer it can get
message_events ==
  {x \in NotifyEvents \X BOOLEAN \X Answers \X (1..MaxHandle) : try_from(x[1], x[2]) # None}

MaxTerminalEvents == 4
BlurDelays == {0, 30}

\* Event::Focus from the terminal: handle_focus_event runs
\* Matrix::focus_event, which tells Notify and arms a timer
FocusEvent ==
  /\ Len(app.log) < MaxTerminalEvents
  /\ \E h \in {Matrix_focus_event(matrix, app.blur_delay)} :
       /\ matrix' = h
       /\ app' = [app EXCEPT !.log = Append(@, [event |-> "Focus",
                     task |-> IF h.spawned = matrix.spawned THEN 0 ELSE h.spawned])]
  /\ notify' = Notify_focus_event(notify)
  /\ UNCHANGED <<chat_vars, settings>>

\* Event::Blur from the terminal: handle_blur_event runs Matrix::blur_event
BlurEvent ==
  /\ Len(app.log) < MaxTerminalEvents
  /\ matrix' = Matrix_blur_event(matrix)
  /\ app' = [app EXCEPT !.log = Append(@, [event |-> "Blur", task |-> 0])]
  /\ notify' = Notify_blur_event(notify)
  /\ UNCHANGED <<chat_vars, settings>>

\* a task spawned by focus_event wakes up; its Blur enters the channel
TimerExpiry ==
  \E t \in matrix.timers : \E h \in {timer_expiry(matrix, t)} :
    /\ matrix' = h.matrix
    /\ app' = [app EXCEPT !.channel = IF h.blur THEN @ + 1 ELSE @]
    /\ UNCHANGED <<chat_vars, notify_vars>>

\* the event loop takes an injected Event::Blur: handle_blur_event again
InjectedBlur ==
  /\ app.channel > 0
  /\ matrix' = Matrix_blur_event(matrix)
  /\ app' = [app EXCEPT !.channel = @ - 1]
  /\ notify' = Notify_blur_event(notify)
  /\ UNCHANGED <<chat_vars, settings>>

InitFocus ==
  /\ scenario = "focus"
  /\ chat = try_new(FALSE)
  /\ pending = 0
  /\ notify = Notify_default
  /\ settings = Settings_default({})
  /\ matrix = Matrix_new
  /\ \E delay \in BlurDelays : app = [App_new EXCEPT !.blur_delay = delay]
NextFocus == FocusEvent \/ BlurEvent \/ TimerExpiry \/ InjectedBlur
SpecFocus == InitFocus /\ [][NextFocus]_vars

\* the terminal events handled after the focus event that armed timer t
since_armed(t) ==
  LET i == CHOOSE i \in 1..Len(app.log) : app.log[i].task = t.id
  IN SubSeq(app.log, i + 1, Len(app.log))

\* C11: in every interleaving of focus events, blur events and expiries, a
\* timer injects its Blur only if the terminal sent no blur and no later
\* focus since the focus that armed it; a blur cancels every pending timer.
C11_TimerUndisturbed ==
  \A t \in matrix.timers : timer_expiry(matrix, t).blur => since_armed(t) = <<>>

\* a timer armed before a blur fires after the next focus
C11_FiresAfterBlur ==
  \E t \in matrix.timers :
    /\ timer_expiry(matrix, t).blur
    /\ \E i \in 1..Len(since_armed(t)) : since_armed(t)[i].event = "Blur"

\* =====================================================================
\* The commands that write to a room
\* =====================================================================
MaxTasks == 2
MaxPaths == 2

SendCommands ==
  {"send_text_message", "send_reply", "send_reaction", "redact_event", "replace_event",
   "send_attachements"}

\* what the call a task waits for can answer
answers_at(t) ==
  IF t.pc = "spawned" THEN {"run"}
  ELSE IF t.pc \in {"get_room_event", "get_reply_event"} THEN RoomEvents
  ELSE {"Ok", "Err"}

\* one step of the block of a command
run(t, answer) ==
  CASE t.command = "send_text_message" -> send_text_message(t, answer)
    [] t.command = "send_reply" -> send_reply(t, answer)
    [] t.command = "send_reaction" -> send_reaction(t, answer)
    [] t.command = "redact_event" -> redact_event(t, answer)
    [] t.command = "replace_event" -> replace_event(t, answer)
    [] t.command = "send_attachements" -> send_attachements(t, answer)

ended(t) == t.pc \in {"done", "panicked"}

spawn(task) ==
  /\ Len(matrix.tasks) < MaxTasks
  /\ matrix' = [matrix EXCEPT !.tasks = Append(@, task)]
  /\ UNCHANGED <<chat_vars, notify_vars, app>>

SendTextMessage == spawn(Task("send_text_message", FALSE))
SendReply == spawn(Task("send_reply", FALSE))
SendReaction == spawn(Task("send_reaction", FALSE))
RedactEvent == spawn(Task("redact_event", FALSE))
ReplaceEvent == \E replying \in BOOLEAN : spawn(Task("replace_event", replying))
SendAttachements == \E paths \in 1..MaxPaths : spawn(Task("send_attachements", paths))

\* the runtime polls a task: it runs up to its next call
SendTaskStep ==
  \E n \in 1..Len(matrix.tasks) :
    /\ ~ended(matrix.tasks[n])
    /\ \E answer \in answers_at(matrix.tasks[n]) :
         matrix' = [matrix EXCEPT !.tasks[n] = run(@, answer)]
    /\ UNCHANGED <<chat_vars, notify_vars, app>>

InitSend ==
  /\ scenario = "send"
  /\ chat = try_new(FALSE)
  /\ pending = 0
  /\ notify = Notify_default
  /\ settings = Settings_default({})
  /\ matrix = Matrix_new
  /\ app = App_new
NextSend ==
  \/ SendTextMessage \/ SendReply \/ SendReaction \/ RedactEvent \/ ReplaceEvent
  \/ SendAttachements \/ SendTaskStep
SpecSend == InitSend /\ [][NextSend]_vars

\* the events a task passed to Matrix::send
sent(t) == SelectSeq(t.trace, LAMBDA e : "event" \in DOMAIN e)

\* every ProgressStarted of the trace has a ProgressComplete after it
bracketed(events) ==
  \A j \in 1..Len(events) :
    events[j] = ProgressStarted
      => \E k \in j + 1..Len(events) : events[k] = ProgressComplete

send_tasks == {matrix.tasks[n] : n \in 1..Len(matrix.tasks)}

\* C12: each command that writes to a room emits ProgressStarted first and,
\* however its task ends, ProgressComplete after it.
C12_ProgressBracketed ==
  \A t \in send_tasks :
    /\ t.pc # "spawned" => sent(t)[1] = ProgressStarted
    /\ ended(t) => bracketed(sent(t))

\* the commands without a lookup do bracket their progress, also when the
\* SDK refuses the write
C12_PlainWritesBracketed ==
  \A t \in send_tasks :
    t.command \in {"send_text_message", "send_reaction", "redact_event"}
      => /\ t.pc # "spawned" => sent(t)[1] = ProgressStarted
         /\ ended(t) => bracketed(sent(t))

\* a reply whose target is missing ended with its progress still open
C12_ReplyTargetMissing ==
  \E t \in send_tasks :
    /\ t.command = "send_reply" /\ ended(t)
    /\ sent(t) = <<ProgressStarted, Error("Could not find reply event.")>>

\* =====================================================================
\* Sessions: init, login, the one-shot sync and the sync loop
\* =====================================================================
MaxSyncBatches == 2

Answer(result, token, fs) == [result |-> result, token |-> token, fs |-> fs]

SyncAnswers ==
  {Answer("Err", "", "")} \cup {Answer("Ok", token, fs) : token \in Tokens, fs \in {"Ok", "Err"}}

\* what the call a task of these commands waits for can answer
facade_answers_at(t) ==
  CASE t.pc = "spawned" -> {Answer("run", "", "")}
    [] t.pc = "restore_session" -> {Answer("Ok", "", ""), Answer("Err", "", "")}
    [] t.pc = "login" -> {Answer("Ok", "", "Ok"), Answer("Ok", "", "Err"), Answer("Err", "", "")}
    [] t.pc \in {"sync_once", "sync_with_result_callback"} -> SyncAnswers
    [] t.pc \in {"room_cache.populate", "get_user_identity"} -> {Answer("Ok", "", "")}
    [] t.pc = "room.get_member" ->
         {Answer("Some", "", ""), Answer("None", "", ""), Answer("Err", "", "")}
    [] t.pc = "room.messages" ->
         {Answer("Ok", "", ""), Answer("Undeserializable", "", ""), Answer("Err", "", "")}

\* one step of the block at n
facade_run(m, n, answer) ==
  CASE m.tasks[n].command = "init" -> init_task(m, n, answer)
    [] m.tasks[n].command = "login" -> login_task(m, n, answer)
    [] m.tasks[n].command = "sync" -> sync_task(m, n, answer)
    [] m.tasks[n].command = "fetch_room_member" -> fetch_room_member(m, n, answer)
    [] m.tasks[n].command = "fetch_messages" -> fetch_messages(m, n, answer)

\* the session files a start can find: none, one written by a login, one
\* with a sync token, one that cannot be parsed
SessionFiles ==
  {None, Some(FullSession(0, 0, None)), Some(FullSession(0, 0, Some("s1"))), Some(Unreadable)}

\* App::tick, the first time: Matrix::init; LoginRequired shows the
\* sign-in form (handle_app_event)
FirstTick ==
  /\ app.started = "no"
  /\ \E h \in {Matrix_init(matrix)} :
       /\ matrix' = h
       /\ app' = [app EXCEPT !.started = IF matrix.session_file = None THEN "absent" ELSE "present",
                              !.signin = h.direct # <<>>]
  /\ UNCHANGED <<chat_vars, notify_vars>>

\* the sign-in form is submitted: Matrix::login
Login ==
  /\ app.signin
  /\ Len(matrix.tasks) < MaxTasks
  /\ matrix' = [matrix EXCEPT !.tasks = Append(@, Task("login", FALSE))]
  /\ UNCHANGED <<chat_vars, notify_vars, app>>

sync_completes(m) ==
  Cardinality({n \in 1..Len(m.tasks) :
                 \E j \in 1..Len(m.tasks[n].trace) : m.tasks[n].trace[j] = SyncComplete})

\* handle_app_event(SyncComplete): the form goes away and Matrix::sync
\* spawns the loop
HandleSyncComplete ==
  /\ app.syncing < sync_completes(matrix)
  /\ Len(matrix.tasks) < MaxTasks
  /\ matrix.client # None
  /\ matrix' = [matrix EXCEPT !.tasks = Append(@, Task("sync", FALSE))]
  /\ app' = [app EXCEPT !.signin = FALSE, !.syncing = @ + 1]
  /\ UNCHANGED <<chat_vars, notify_vars>>

\* a chat asks for a member or for older messages of its room
FetchRoomMember ==
  /\ matrix.client # None
  /\ Len(matrix.tasks) < MaxTasks
  /\ matrix' = [matrix EXCEPT !.tasks = Append(@, Task("fetch_room_member", FALSE))]
  /\ UNCHANGED <<chat_vars, notify_vars, app>>

FetchMessages ==
  /\ matrix.client # None
  /\ Len(matrix.tasks) < MaxTasks
  /\ matrix' = [matrix EXCEPT !.tasks = Append(@, Task("fetch_messages", FALSE))]
  /\ UNCHANGED <<chat_vars, notify_vars, app>>

\* the runtime polls a task: it runs up to its next call
FacadeTaskStep ==
  \E n \in 1..Len(matrix.tasks) :
    /\ ~ended(matrix.tasks[n])
    /\ matrix.tasks[n].command = "sync" => matrix.tasks[n].i < MaxSyncBatches
    /\ \E answer \in facade_answers_at(matrix.tasks[n]) :
         \E h \in {facade_run(matrix, n, answer)} : matrix' = h
    /\ UNCHANGED <<chat_vars, notify_vars, app>>

InitFacade ==
  /\ scenario = "session"
  /\ chat = try_new(FALSE)
  /\ pending = 0
  /\ notify = Notify_default
  /\ settings = Settings_default({})
  /\ \E session_file \in SessionFiles : matrix = [Matrix_new EXCEPT !.session_file = session_file]
  /\ app = App_new
NextFacade ==
  FirstTick \/ Login \/ HandleSyncComplete \/ FetchRoomMember \/ FetchMessages \/ FacadeTaskStep
SpecFacade == InitFacade /\ [][NextFacade]_vars

facade_tasks == {matrix.tasks[n] : n \in 1..Len(matrix.tasks)}

\* where x first stands in a trace, 0 if nowhere
index_of(trace, x) ==
  IF \E j \in 1..Len(trace) : trace[j] = x
    THEN CHOOSE j \in 1..Len(trace) : trace[j] = x /\ \A k \in 1..j - 1 : trace[k] # x
  ELSE 0

has(trace, x) == index_of(trace, x) > 0

\* the event a command sends when its task did what was asked
success_of(t) ==
  CASE t.command \in {"init", "login"} -> SyncComplete
    [] t.command = "fetch_room_member" -> RoomMember
    [] t.command = "fetch_messages" -> TimelineBatch
    [] OTHER -> ProgressComplete

\* C13: no task of a command panics; a task that fails ends normally and
\* surfaces the failure as an Error event.
C13_NoTaskPanics ==
  \A t \in facade_tasks :
    /\ t.pc # "panicked"
    /\ (t.pc = "done" /\ ~has(t.trace, success_of(t)))
         => \E j \in 1..Len(t.trace) : "event" \in DOMAIN t.trace[j] /\ t.trace[j].event = "Error"

\* whatever makes a task fail without a panic is surfaced
C13_FailuresSurfaced ==
  \A t \in facade_tasks :
    (t.pc = "done" /\ ~has(t.trace, success_of(t)))
      => \E j \in 1..Len(t.trace) : "event" \in DOMAIN t.trace[j] /\ t.trace[j].event = "Error"

\* a second login came through after the first had set the client
C13_LoginPanicked ==
  \E t \in facade_tasks :
    t.command = "login" /\ t.pc = "panicked" /\ has(t.trace, Effect("login", ""))

is_prefix(a, b) == Len(a) <= Len(b) /\ a = SubSeq(b, 1, Len(a))

LoginEvents == <<LoginStarted, LoginComplete, SyncStarted("Initial"), SyncComplete>>

\* the one-shot sync of the task returned a token
synced(t) == \E j \in 1..Len(t.trace) :
  "effect" \in DOMAIN t.trace[j] /\ t.trace[j].effect = "sync_once"

holds_token(session_file) ==
  session_file # None /\ session_file[1].valid /\ session_file[1].sync_token # None

\* what holds of a login task in every state
login_order(t) ==
  /\ is_prefix(sent(t), LoginEvents) \/ sent(t) = <<LoginStarted, Error(ErrString)>>
       \/ sent(t) = <<LoginStarted, LoginComplete, SyncStarted("Initial"), Error(ErrString)>>
       \/ sent(t) = <<LoginStarted, LoginComplete, SyncStarted("Initial"), Error("Sync timeout.")>>
  /\ synced(t) => is_prefix(sent(t), LoginEvents)
  /\ (synced(t) /\ t.pc \in {"get_user_identity", "done"}) => sent(t) = LoginEvents
  /\ has(t.trace, LoginComplete)
       => /\ has(t.trace, Effect("login", ""))
          /\ index_of(t.trace, Effect("login", "")) < index_of(t.trace, LoginComplete)
          /\ matrix.session_file # None /\ matrix.session_file[1].valid
  /\ (t.pc = "done" /\ ~has(t.trace, Effect("login", "")))
       => sent(t) = <<LoginStarted, Error(ErrString)>>

\* the step in which task n sends SyncComplete
sends_sync_complete(n) ==
  /\ n <= Len(matrix.tasks)
  /\ ~has(matrix.tasks[n].trace, SyncComplete)
  /\ has(matrix'.tasks[n].trace, SyncComplete)

\* C14: a login whose authentication and one-shot sync succeed sends
\* exactly LoginStarted, LoginComplete, SyncStarted(Initial), SyncComplete,
\* in this order; the full session is in the file before LoginComplete;
\* when SyncComplete is sent the file holds a sync token; a login whose
\* authentication fails sends LoginStarted and Error, never LoginComplete.
C14_LoginSequence ==
  /\ [](\A t \in facade_tasks : t.command = "login" => login_order(t))
  /\ [][\A n \in 1..MaxTasks + 1 :
          (sends_sync_complete(n) /\ matrix.tasks[n].command = "login")
            => holds_token(matrix'.session_file)]_vars

C14_Orders == \A t \in facade_tasks : t.command = "login" => login_order(t)

\* where the first effect of a name stands in a trace, 0 if nowhere
effect_index(trace, name) ==
  IF \E j \in 1..Len(trace) : "effect" \in DOMAIN trace[j] /\ trace[j].effect = name
    THEN CHOOSE j \in 1..Len(trace) :
           /\ "effect" \in DOMAIN trace[j] /\ trace[j].effect = name
           /\ \A k \in 1..j - 1 : ~("effect" \in DOMAIN trace[k] /\ trace[k].effect = name)
  ELSE 0

\* the results of the attempts of the one-shot sync of a task, in order
attempts(t) ==
  SelectSeq(t.trace, LAMBDA e : "effect" \in DOMAIN e /\ e.effect = "client.sync_once")

has_error(t) == \E j \in 1..Len(sent(t)) : sent(t)[j].event = "Error"

\* what holds of the task of init in every state
init_order(t) ==
  /\ sent(t) # <<>> => sent(t)[1] = SyncStarted("Latest")
  /\ has(t.trace, SyncComplete)
       => /\ 0 < effect_index(t.trace, "restore_session")
          /\ effect_index(t.trace, "restore_session") < effect_index(t.trace, "sync_once")
          /\ effect_index(t.trace, "sync_once") < effect_index(t.trace, "populate")
          /\ effect_index(t.trace, "populate") < index_of(t.trace, SyncComplete)
          /\ Len(SelectSeq(attempts(t), LAMBDA e : e.result # "Err")) = 1
          /\ sent(t) = <<SyncStarted("Latest"), SyncComplete>>
          /\ matrix.room_cache /\ matrix.client # None
  /\ has_error(t) => ~has(t.trace, SyncComplete)
  /\ (t.pc = "done" /\ ~has(t.trace, SyncComplete))
       => /\ Len(sent(t)) = 2 /\ sent(t)[2].event = "Error"
          /\ effect_index(t.trace, "restore_session") = 0 \/ effect_index(t.trace, "sync_once") = 0

init_tasks == {t \in facade_tasks : t.command = "init"}

\* C15: without a session file init sends exactly LoginRequired and starts
\* no task; with one, its task sends SyncStarted(Latest) first and
\* SyncComplete only after the session was restored, one one-shot sync
\* succeeded and the room cache was populated, in this order; when the
\* restore or the sync fails it sends Error and never SyncComplete.
C15_Init ==
  /\ app.started = "no" => matrix.direct = <<>> /\ matrix.tasks = <<>>
  /\ app.started = "absent" => matrix.direct = <<LoginRequired>> /\ init_tasks = {}
  /\ app.started = "present"
       => matrix.direct = <<>> /\ Len(matrix.tasks) >= 1 /\ matrix.tasks[1].command = "init"
  /\ \A t \in init_tasks : init_order(t)

\* a start that found a session ended with SyncComplete after one failed
\* and one successful attempt to sync
C15_Restored ==
  \E t \in init_tasks :
    t.pc = "done" /\ has(t.trace, SyncComplete) /\ Len(attempts(t)) = 2

\* a start that found no session showed the sign-in form
C15_LoginRequired == app.started = "absent" /\ app.signin

\* the tasks that run the one-shot sync
one_shot_tasks == {t \in facade_tasks : t.command \in {"init", "login"}}

\* the places of the trace where an attempt of the one-shot sync succeeded
successes(t) ==
  {j \in 1..Len(t.trace) :
     /\ "effect" \in DOMAIN t.trace[j]
     /\ t.trace[j].effect = "client.sync_once" /\ t.trace[j].result # "Err"}

none_succeeded(t) ==
  Len(attempts(t)) = SyncAttempts /\ \A j \in 1..SyncAttempts : attempts(t)[j].result = "Err"

\* at most ten attempts, none after a success, and 'Sync timeout.' exactly
\* when ten attempts failed
retries(t) ==
  /\ Len(attempts(t)) <= SyncAttempts
  /\ \A j \in 1..Len(attempts(t)) : attempts(t)[j].result # "Err" => j = Len(attempts(t))
  /\ has(t.trace, Error("Sync timeout.")) <=> none_succeeded(t)
  /\ none_succeeded(t) => t.pc = "done" /\ ~has(t.trace, SyncComplete)

\* the step in which the one-shot sync of task n returns a token
returns_token(n) ==
  /\ n <= Len(matrix.tasks)
  /\ matrix.tasks[n].command \in {"init", "login"}
  /\ effect_index(matrix.tasks[n].trace, "sync_once") = 0
  /\ effect_index(matrix'.tasks[n].trace, "sync_once") > 0

returned_token(n) == matrix'.tasks[n].trace[effect_index(matrix'.tasks[n].trace, "sync_once")].result

\* C16 as claimed: the one-shot sync makes up to 10 attempts, stops at the
\* first that succeeds, persists its token and returns it, and fails with
\* 'Sync timeout.' exactly when no attempt succeeds.
C16_FirstSuccessReturned ==
  \A t \in one_shot_tasks :
    /\ retries(t)
    /\ \A j \in successes(t) :
         j < Len(t.trace) /\ t.trace[j + 1] = Effect("sync_once", t.trace[j].result)

\* C16, amended: the one-shot sync makes up to 10 attempts and stops at the
\* first that succeeds; it persists the token of that attempt and returns
\* it, or, when the file cannot be updated, fails with the error of the
\* file; it fails with 'Sync timeout.' exactly when no attempt succeeds.
C16_FirstSuccessPersisted ==
  /\ [](\A t \in one_shot_tasks :
          /\ retries(t)
          /\ \A j \in successes(t) :
               /\ j < Len(t.trace)
               /\ \/ t.trace[j + 1] = Effect("sync_once", t.trace[j].result)
                  \/ t.trace[j + 1] = Error(ErrString) /\ t.pc = "done")
  /\ [][\A n \in 1..MaxTasks + 1 :
          returns_token(n)
            => /\ matrix'.session_file # None
               /\ matrix'.session_file[1].sync_token = Some(returned_token(n))
               /\ successes(matrix'.tasks[n]) # {}
               /\ \A j \in successes(matrix'.tasks[n]) :
                    matrix'.tasks[n].trace[j].result = returned_token(n)]_vars

\* a one-shot sync succeeded at its third attempt and returned the token
C16_ThirdAttempt ==
  \E t \in one_shot_tasks :
    /\ Len(attempts(t)) = 3
    /\ effect_index(t.trace, "sync_once") > 0

\* a one-shot sync gave up after ten failed attempts
C16_TimedOut == \E t \in one_shot_tasks : has(t.trace, Error("Sync timeout."))

sync_tasks == {t \in facade_tasks : t.command = "sync"}

\* the step in which the loop of task n handles a batch
handles_batch(n) ==
  /\ n <= Len(matrix.tasks)
  /\ matrix.tasks[n].command = "sync"
  /\ matrix'.tasks[n].i = matrix.tasks[n].i + 1

\* the file holds the session it held before, with this token
token_persisted(token) ==
  /\ matrix.session_file # None /\ matrix'.session_file # None
  /\ matrix'.session_file[1].valid
  /\ matrix'.session_file[1].sync_token = Some(token)
  /\ matrix'.session_file[1].client_session = matrix.session_file[1].client_session
  /\ matrix'.session_file[1].user_session = matrix.session_file[1].user_session

\* the loop is never over, whatever its batches brought
never_ends == \A t \in sync_tasks : ~ended(t) /\ (t.i > 0 => t.pc = "sync_with_result_callback")

MaxTyped == 3

Chars == {"a", "b", "d"}

\* the combo of the chat, the combo of the tests and two more
Combos == {<<"d", "d">>, <<"a", "b", "d">>, <<"a", "b">>, <<"a", "b", "a">>}

\* the milliseconds that pass between two looks at the clock
Gaps == {250, 251}

\* time passes
Wait ==
  /\ elapsed(app.combo) <= Timeframe
  /\ \E ms \in Gaps : app' = [app EXCEPT !.combo = KeyCombo_wait(@, ms)]
  /\ UNCHANGED <<chat_vars, notify_vars, matrix>>

\* the last n elements of a sequence
last_n(s, n) == SubSeq(s, Max(1, Len(s) + 1 - n), Len(s))

\* a key is typed: KeyCombo::record; typed keeps the latest calls, each
\* with its character, whether it came after the time-frame had run out,
\* and the value returned
Record ==
  /\ \E c \in Chars : \E h \in {record(app.combo, c)} :
       app' = [app EXCEPT
                 !.combo = h.combo,
                 !.typed = last_n(Append(@, [c |-> c, late |-> elapsed(app.combo) > Timeframe,
                                             result |-> h.result]), MaxTyped)]
  /\ UNCHANGED <<chat_vars, notify_vars, matrix>>

InitCombo ==
  /\ scenario = "combo"
  /\ chat = try_new(FALSE)
  /\ pending = 0
  /\ notify = Notify_default
  /\ settings = Settings_default({})
  /\ matrix = Matrix_new
  /\ \E combo \in Combos : app = [App_new EXCEPT !.combo = KeyCombo_new(combo)]
NextCombo == Wait \/ Record
SpecCombo == InitCombo /\ [][NextCombo]_vars

\* the target sequence, in the order it is typed
target(k) == Reverse(k.combo)

\* the characters of the target the recognizer counts as entered
entered(k) == SubSeq(target(k), 1, Len(k.combo) - Len(k.waiting_for))

\* the latest calls spell the target, each but the first within the
\* time-frame of the one before, and none but the last completed a match
spelled(typed, k) ==
  LET n == Len(k.combo)
      latest == last_n(typed, n)
  IN /\ Len(typed) >= n
     /\ \A j \in 1..n : latest[j].c = target(k)[j]
     /\ \A j \in 2..n : ~latest[j].late
     /\ \A j \in 1..n - 1 : ~latest[j].result

\* C18: a character that arrives more than 500 ms after the character
\* accepted before it makes record return false, also when it is the
\* character expected next; the partial match is dropped, and record does
\* not return true before the whole sequence was entered again.
C18_TimedOut ==
  /\ (entered(app.combo) # <<>> /\ elapsed(app.combo) > Timeframe)
       => \A c \in Chars :
            /\ ~record(app.combo, c).result
            /\ entered(record(app.combo, c).combo)
                  = IF c = target(app.combo)[1] THEN <<c>> ELSE <<>>
  /\ (app.typed # <<>> /\ app.typed[Len(app.typed)].result) => spelled(app.typed, app.combo)

\* the third character of a, b, d came too late and was not accepted
C18_LateThird ==
  /\ target(app.combo) = <<"a", "b", "d">>
  /\ Len(app.typed) = 3
  /\ app.typed[1] = [c |-> "a", late |-> FALSE, result |-> FALSE]
  /\ app.typed[2] = [c |-> "b", late |-> FALSE, result |-> FALSE]
  /\ app.typed[3] = [c |-> "d", late |-> TRUE, result |-> FALSE]
  /\ entered(app.combo) = <<>>

\* the characters counted as entered once the time-frame was looked at
in_time(k) == IF elapsed(k) > k.timeframe THEN <<>> ELSE entered(k)

\* C19: record(c) returns true exactly when c completes the target
\* entered since the last reset within the time-frame, which means the
\* latest calls spell the target; a mismatching character resets the
\* recognizer to the start of the sequence, and after returning true the
\* recognizer is as new.
C19_Recognition ==
  /\ \A c \in Chars :
       LET h == record(app.combo, c)
       IN /\ h.result <=> Append(in_time(app.combo), c) = target(app.combo)
          /\ c # target(app.combo)[Len(in_time(app.combo)) + 1]
               => ~h.result /\ entered(h.combo) = <<>>
          /\ h.result => h.combo = KeyCombo_new(target(app.combo))
  /\ (app.typed # <<>> /\ app.typed[Len(app.typed)].result)
       => spelled(app.typed, app.combo) /\ entered(app.combo) = <<>>

\* d was accepted, a wrong key came, and the d after it completed nothing
C19_AfterWrongKey ==
  /\ target(app.combo) = <<"d", "d">>
  /\ Len(app.typed) = 3
  /\ app.typed[1] = [c |-> "d", late |-> FALSE, result |-> FALSE]
  /\ app.typed[2] = [c |-> "a", late |-> FALSE, result |-> FALSE]
  /\ app.typed[3] = [c |-> "d", late |-> FALSE, result |-> FALSE]
  /\ entered(app.combo) = <<"d">>

\* =====================================================================
\* Deleting the selected message
\* =====================================================================
\* the keys typed, all without modifiers
Keys == {"d", "j", "k", "Tab", "Enter", "Esc"}

\* the App, its chat and its facade, as a key handler sees them
whole == [chat |-> chat, app |-> app, matrix |-> matrix]

\* Event::Key reaches the App; the keys that move the selection are
\* pressed while the list shows lines
Key ==
  /\ ~chat.panicked
  /\ Len(matrix.tasks) < MaxTasks
  /\ \E input \in Keys : \E h \in {handle_key_event(whole, input)} :
       /\ input \in {"j", "k"} /\ app.popup = None => chat.line_types # <<>>
       /\ chat' = Begin(h.chat)
       /\ pending' = pending + Fetches(h.chat)
       /\ app' = h.app
       /\ matrix' = h.matrix
  /\ UNCHANGED <<scenario, notify_vars>>

\* time passes since the last key the delete combo accepted
ComboWait ==
  /\ elapsed(chat.delete_combo) <= Timeframe
  /\ \E ms \in Gaps : chat' = [chat EXCEPT !.delete_combo = KeyCombo_wait(@, ms)]
  /\ UNCHANGED <<pending, scenario, notify_vars, facade_vars>>

InitDelete == InitChat({"delete"}, {FALSE})
NextDelete == TimelineEvent \/ Render \/ Key \/ ComboWait
SpecDelete == InitDelete /\ [][NextDelete]_vars

\* a first d was accepted by the delete combo less than the time-frame ago
armed(c) == entered(c.delete_combo) = <<"d">> /\ elapsed(c.delete_combo) <= Timeframe

\* the drawn chat has a selected line, which belongs to a message
message_selected(c) ==
  c.list_state.selected # None /\ get_bookmark(c) # None /\ Rendered(c)

\* the popup is the Confirm that asks whether to delete the message id
asks_to_delete(a, id) ==
  /\ a.popup # None
  /\ a.popup[1].type = "Confirm"
  /\ a.popup[1].yes.label = "Yes" /\ a.popup[1].no.label = "No"
  /\ a.popup[1].behavior = DeleteMessage(ROOM, id)

\* Enter on the focused Yes issues one redact_event for the message asked
\* about and closes the popup; Enter on the focused No, and Esc, close the
\* popup and issue nothing
C20_Confirming ==
  (app.popup # None /\ app.popup[1].type = "Confirm")
    => LET w == app.popup[1]
           enter == handle_key_event(whole, "Enter")
           esc == handle_key_event(whole, "Esc")
       IN /\ enter.app.popup = None /\ esc.app.popup = None
          /\ esc.matrix = matrix
          /\ enter.matrix.tasks
               = IF w.yes.focused
                   THEN Append(matrix.tasks, Task("redact_event", [room |-> ROOM, id |-> w.behavior.id]))
                 ELSE matrix.tasks

C20_OpensForMessage ==
  (app.popup = None /\ selected_reply(chat) # None /\ armed(chat))
    => asks_to_delete(handle_key_event(whole, "d").app, get_bookmark(chat)[1].message_id)

\* a reply is selected in the drawn chat when the second d is due
C20_ReplySelected ==
  /\ app.popup = None /\ armed(chat)
  /\ message_selected(chat)
  /\ selects(chat, 2)
  /\ handle_key_event(whole, "d").app.popup = None

\* the popup asks about message 1 and No is focused
C20_NoFocused ==
  /\ asks_to_delete(app, 1)
  /\ app.popup[1].no.focused /\ ~app.popup[1].yes.focused

\* =====================================================================
\* The notifications of a room
\* =====================================================================
\* the ids the service can give a notification that replaces no other
free_ids == (1..MaxHandle) \ DOMAIN app.desktop.open

\* Matrix::timeline_event runs Notify::timeline_event, and the service
\* shows what send_notification asks for: under the stored id of the room,
\* or under an id of its own choosing
NotifierTimelineEvent ==
  \E event \in NotifyEvents, answer \in Answers, handle_id \in 1..MaxHandle :
    \E h \in {Notify_timeline_event(notify, settings, event, TRUE, answer, handle_id)} :
      /\ event.room \in DOMAIN notify.rooms \/ handle_id \in free_ids
      /\ notify' = h.notify
      /\ app' = [app EXCEPT
                   !.desktop.open = IF h.shown
                                      THEN map_insert(@, h.notify.rooms[event.room], event.room)
                                    ELSE @,
                   !.desktop.refused = @ \/ (h.result = "Err" /\ answer = "show_err")]
      /\ UNCHANGED <<chat_vars, settings, matrix>>

\* Matrix::room_visit_event runs Notify::room_visit_event
NotifierRoomVisit ==
  \E room \in Rooms, answer \in {"ok", "show_err"} :
    \E closed \in {visit_closes(notify, room, answer)} :
      /\ notify' = Notify_room_visit_event(notify, room)
      /\ app' = [app EXCEPT
                   !.desktop.open = IF closed = None THEN @ ELSE map_remove(@, closed[1]),
                   !.desktop.refused = @ \/ (room \in DOMAIN notify.rooms /\ closed = None)]
      /\ UNCHANGED <<chat_vars, settings, matrix>>

InitNotifier ==
  /\ scenario = "notifier"
  /\ chat = try_new(FALSE)
  /\ pending = 0
  /\ notify = Notify_default
  /\ settings = Settings_default({})
  /\ matrix = Matrix_new
  /\ app = App_new
NextNotifier == NotifierTimelineEvent \/ NotifierRoomVisit \/ NotifyFocusEvent \/ NotifyBlurEvent
SpecNotifier == InitNotifier /\ [][NextNotifier]_vars

\* the ids of the notifications the desktop shows for a room
open_for(room) == {id \in DOMAIN app.desktop.open : app.desktop.open[id] = room}

\* every notification the desktop shows is the one stored for its room
all_stored ==
  \A room \in Rooms : \A id \in open_for(room) :
    room \in DOMAIN notify.rooms /\ notify.rooms[room] = id

\* a visit of any room leaves no stored id for it and none of its
\* notifications on the desktop
visit_clears ==
  \A room \in Rooms, answer \in {"ok", "show_err"} :
    /\ room \notin DOMAIN Notify_room_visit_event(notify, room).rooms
    /\ open_for(room) \subseteq
         (IF visit_closes(notify, room, answer) = None THEN {}
          ELSE {visit_closes(notify, room, answer)[1]})

\* C21: after any sequence of notifications and room visits a room has at
\* most one outstanding notification, which is the one whose id is stored
\* for the room: a further notification for the room replaces it under
\* that id, and room_visit_event(R) closes it and leaves no stored id for R.
C21_OnePerRoom ==
  /\ \A room \in Rooms : Cardinality(open_for(room)) <= 1
  /\ all_stored
  /\ visit_clears

\* the same as long as the service has refused no request, and the ids
\* stored for two rooms always differ
C21_OnePerRoomUnlessRefused ==
  /\ ~app.desktop.refused
       => /\ \A room \in Rooms : Cardinality(open_for(room)) <= 1
          /\ all_stored
          /\ \A room \in Rooms :
               /\ room \notin DOMAIN Notify_room_visit_event(notify, room).rooms
               /\ open_for(room) \subseteq
                    (IF visit_closes(notify, room, "ok") = None THEN {}
                     ELSE {visit_closes(notify, room, "ok")[1]})
  /\ \A r1, r2 \in DOMAIN notify.rooms : notify.rooms[r1] = notify.rooms[r2] => r1 = r2

\* two notifications of one room are on the desktop
C21_TwoForOneRoom == \E room \in Rooms : Cardinality(open_for(room)) = 2

\* =====================================================================
\* The delay timer
\* =====================================================================
MaxCalls == 3
MaxTime == 4
Delay == 2

\* some caller calls DelayTimer::record
TimerRecord ==
  /\ Len(app.timer.tasks) < MaxCalls
  /\ app' = [app EXCEPT !.timer = DelayTimer_record(@, app.now)]
  /\ UNCHANGED <<chat_vars, notify_vars, matrix>>

\* the runtime polls a spawned task for the first time
TimerPoll ==
  /\ \E n \in DOMAIN app.timer.tasks :
       /\ app.timer.tasks[n].state = "spawned"
       /\ app' = [app EXCEPT !.timer = sleep(@, n, app.now)]
  /\ UNCHANGED <<chat_vars, notify_vars, matrix>>

\* the runtime polls a task whose sleep is over
TimerRun ==
  /\ \E n \in DOMAIN app.timer.tasks :
       /\ app.timer.tasks[n].state = "sleeping"
       /\ app.now >= app.timer.tasks[n].deadline
       /\ app' = [app EXCEPT !.timer = run_block(@, n, app.now)]
  /\ UNCHANGED <<chat_vars, notify_vars, matrix>>

\* a tick of time passes; after MaxTime only as long as a task sleeps
TimerTick ==
  /\ \/ app.now < MaxTime
     \/ \E n \in DOMAIN app.timer.tasks :
          app.timer.tasks[n].state = "sleeping" /\ app.now < app.timer.tasks[n].deadline
  /\ app' = [app EXCEPT !.now = @ + 1]
  /\ UNCHANGED <<chat_vars, notify_vars, matrix>>

InitTimer ==
  /\ scenario = "timer"
  /\ chat = try_new(FALSE)
  /\ pending = 0
  /\ notify = Notify_default
  /\ settings = Settings_default({})
  /\ matrix = Matrix_new
  /\ app = [App_new EXCEPT !.timer = DelayTimer_new(Delay)]
NextTimer == TimerRecord \/ TimerPoll \/ TimerRun \/ TimerTick

\* the runtime keeps polling the tasks that can go on, and time passes
SpecTimer ==
  /\ InitTimer /\ [][NextTimer]_vars
  /\ WF_vars(TimerPoll) /\ WF_vars(TimerRun) /\ WF_vars(TimerTick)

calls == app.timer.tasks

\* call n is the last of its burst: no call follows it less than the delay later
ends_burst(n) == n = Len(calls) \/ calls[n + 1].called - calls[n].called >= Delay

\* the block may still run for call n
live(n) == n \in DOMAIN calls /\ calls[n].state \in {"spawned", "sleeping"}

\* the block never runs earlier than the delay after the call, and never
\* for a call that is not the last of its burst
never_early ==
  \A n \in DOMAIN calls :
    calls[n].state = "ran" => calls[n].ran_at >= calls[n].called + Delay /\ ends_burst(n)

\* C22 as stated: the block runs exactly once for every burst of calls
\* that come less than the delay after one another, for its last call and
\* not earlier than the delay after it; a later burst does not undo that.
C22_OncePerBurst ==
  /\ never_early
  /\ \A n \in DOMAIN calls : ends_burst(n) => calls[n].state # "aborted"

\* C22, amended: a call cancels the run of the call before it when that
\* run has not happened yet, which is always so less than the delay after
\* that call; the block runs once for the last call of every run of calls
\* that cancel one another, not earlier than the delay after it, and
\* only the latest call can still be waiting for its run.
C22_OncePerCancelledRun ==
  /\ [](/\ never_early
        /\ \A n \in DOMAIN calls :
             /\ calls[n].state = "aborted" => n < Len(calls) /\ calls[n].ran_at = 0
             /\ live(n) => n = Len(calls)
             /\ (n < Len(calls) /\ calls[n].state = "ran") => calls[n].ran_at <= calls[n + 1].called)
  /\ \A n \in 1..MaxCalls : live(n) ~> ~live(n)

\* two bursts, the second of two calls, and the block has run once for each
C22_TwoBursts ==
  /\ Len(calls) = 3
  /\ calls[1].state = "ran" /\ calls[2].state = "aborted" /\ calls[3].state = "ran"
  /\ ~ends_burst(2)

\* the first call of a later burst has cancelled the run of the burst before
C22_BurstWithoutRun ==
  \E n \in DOMAIN calls : ends_burst(n) /\ calls[n].state = "aborted"

\* =====================================================================
\* The order of the events
\* =====================================================================
MaxId == 3

\* what the comparison looks at: the event id and the origin timestamp; the
\* ids 1..MaxId stand for event ids in their lexicographic order
OrderedEvents == [id : 1..MaxId, ts : 1..MaxEventTs]

\* three events are compared with one another
Compare ==
  /\ \E x, y, z \in OrderedEvents :
       app' = [app EXCEPT !.compared =
                 Some([x |-> x, y |-> y, z |-> z,
                       xy |-> cmp(x, y), yx |-> cmp(y, x), yz |-> cmp(y, z), xz |-> cmp(x, z),
                       eq |-> (x.id = y.id)])]
  /\ UNCHANGED <<chat_vars, notify_vars, matrix>>

InitOrder ==
  /\ scenario = "order"
  /\ chat = try_new(FALSE)
  /\ pending = 0
  /\ notify = Notify_default
  /\ settings = Settings_default({})
  /\ matrix = Matrix_new
  /\ app = App_new
NextOrder == Compare
SpecOrder == InitOrder /\ [][NextOrder]_vars

at_most(o) == o \in {"Less", "Equal"}

\* the comparison of x, y and z is that of a total order that agrees with
\* the equality of ids, orders by timestamp first and by id second
total_order(c) ==
  \* antisymmetric
  /\ (c.xy = "Less") = (c.yx = "Greater")
  /\ (c.xy = "Equal") = (c.yx = "Equal")
  \* transitive
  /\ at_most(c.xy) /\ at_most(c.yz) => at_most(c.xz)
  /\ at_most(c.xy) /\ at_most(c.yz) /\ "Less" \in {c.xy, c.yz} => c.xz = "Less"
  \* agrees with equality, which compares the ids
  /\ (c.xy = "Equal") = c.eq
  /\ c.x.id = c.y.id => c.xy = "Equal"
  \* the timestamp first, then the id
  /\ c.x.id # c.y.id /\ c.x.ts < c.y.ts => c.xy = "Less"
  /\ c.x.id # c.y.id /\ c.x.ts = c.y.ts => c.xy = (IF c.x.id < c.y.id THEN "Less" ELSE "Greater")

\* C23: the comparison on OrderedEvent is a total order on every set of
\* (event-id, origin-timestamp) pairs: antisymmetric, transitive, Equal
\* exactly for equal ids whatever the timestamps, by timestamp first and
\* by event-id among equal timestamps.
C23_TotalOrder == app.compared # None => total_order(app.compared[1])

\* an id has one timestamp among the events
one_timestamp(events) == \A e, f \in events : e.id = f.id => e.ts = f.ts

\* the comparison is that total order on the events of which no two have
\* the same id and different timestamps
C23_TotalOrderOfEvents ==
  (app.compared # None /\ one_timestamp({app.compared[1].x, app.compared[1].y, app.compared[1].z}))
    => total_order(app.compared[1])

\* x is before y, y is before z, and x and z are Equal
C23_Cycle ==
  /\ app.compared # None
  /\ app.compared[1].xy = "Less" /\ app.compared[1].yz = "Less" /\ app.compared[1].xz = "Equal"

\* =====================================================================
\* The read mark
\* =====================================================================
\* the ids of the newest of a sequence of messages: those sent last
latest(messages) ==
  {messages[i].id : i \in {i \in DOMAIN messages :
                             \A j \in DOMAIN messages : messages[i].sent >= messages[j].sent}}

\* the ids of the newest messages of a list, whether the replies count as
\* messages of the list or not
newest_ids(messages) == latest(messages) \cup latest(tree_messages(messages))

\* the read_to commands a handler issued, each with the focus, the first
\* message and the newest messages of the list the handler left
read_tos(h) ==
  LET issued == SelectSeq(h.out, LAMBDA command : command.cmd = "read_to")
  IN [i \in 1..Len(issued) |->
        [id |-> issued[i].id, focus |-> h.focus,
         first |-> IF h.messages = <<>> THEN None ELSE Some(h.messages[1].id),
         newest |-> newest_ids(h.messages)]]

\* a handler h ran on the chat: its state, and the commands the facade got
HandledRead(h) ==
  /\ ~chat.panicked
  /\ chat' = Begin(h)
  /\ pending' = pending + Fetches(h)
  /\ app' = [app EXCEPT !.read_log = last_n(@ \o read_tos(h), 2)]
  /\ UNCHANGED <<scenario, notify_vars, matrix>>

ReadTimelineEvent ==
  \E e \in Deliverable(chat, scenario) : \E h \in {timeline_event(chat, e)} : HandledRead(h)

\* Event::Focus and Event::Blur reach Chat::focus_event and Chat::blur_event
ReadFocusEvent == \E h \in {focus_event(chat)} : HandledRead(h)
ReadBlurEvent == \E h \in {blur_event(chat)} : HandledRead(h)

ReadSearchEvent ==
  \E search_term \in SearchTerms : \E h \in {search_event(chat, search_term)} : HandledRead(h)

InitRead == InitChat({"read"}, {FALSE})
NextRead == ReadTimelineEvent \/ ReadFocusEvent \/ ReadBlurEvent \/ ReadSearchEvent
SpecRead == InitRead /\ [][NextRead]_vars

\* what focus_event has to send when the newest message is the one the
\* given ids name: one of them, unless it is the id sent last
due_on_focus(ids) ==
  {<<id>> : id \in {id \in ids : app.read_log = <<>> \/ app.read_log[Len(app.read_log)].id # id}}
  \cup {<<>> : id \in {id \in ids : app.read_log # <<>> /\ app.read_log[Len(app.read_log)].id = id}}
  \cup (IF ids = {} THEN {<<>>} ELSE {})

\* the ids focus_event sends
sent_on_focus ==
  [i \in 1..Len(read_tos(focus_event(chat))) |-> read_tos(focus_event(chat))[i].id]

\* C24: read_to is never issued while the chat is unfocused; it carries
\* the id of the newest message of the current message list; two
\* consecutive read_to commands never carry the same id; focus_event sends
\* the newest message id if it differs from the last one sent.
C24_ReadMark ==
  /\ \A i \in DOMAIN app.read_log :
       app.read_log[i].focus /\ app.read_log[i].id \in app.read_log[i].newest
  /\ Len(app.read_log) = 2 => app.read_log[1].id # app.read_log[2].id
  /\ ~chat.panicked => sent_on_focus \in due_on_focus(newest_ids(chat.messages))

\* the same of the first message of the list instead of the newest: what
\* set_fully_read sends is the id of the first message of the list
C24_FirstOfList ==
  /\ \A i \in DOMAIN app.read_log :
       app.read_log[i].focus /\ app.read_log[i].first = Some(app.read_log[i].id)
  /\ Len(app.read_log) = 2 => app.read_log[1].id # app.read_log[2].id
  /\ ~chat.panicked
       => sent_on_focus \in due_on_focus({chat.messages[i].id : i \in DOMAIN chat.messages \cap {1}})

\* the read mark went to message 2 and then back to message 1, which is
\* older than message 2 and got a reply
C24_MarkMovedBack ==
  /\ Len(app.read_log) = 2
  /\ app.read_log[1].id = 2 /\ app.read_log[2].id = 1
  /\ chat.focus /\ chat.search_term = <<>>
  /\ 1 \notin newest_ids(chat.messages)

\* =====================================================================
\* The room cache under timeline events
\* =====================================================================
MaxLatest == 1
MaxBuilding == 1

RoomStates == {"None", "Joined", "Left"}

\* the rooms the client has as joined, in one of the orders joined_rooms
\* may give them
JoinedOrders ==
  LET joined == {room \in Rooms : is_joined(room, app.homeserver)}
  IN {order \in [1..Cardinality(joined) -> joined] :
        \A i, j \in 1..Cardinality(joined) : i # j => order[i] # order[j]}

\* a sync changes what the client knows of a room: its state, or a new
\* message in a room it knows of, until one room has MaxLatest messages
CacheSync ==
  /\ \E room \in Rooms :
       \/ \E state \in RoomStates \ {"None", app.homeserver[room].state} :
            /\ app' = [app EXCEPT !.homeserver[room].state = state]
       \/ /\ app.homeserver[room].state # "None"
          /\ \A other \in Rooms : app.homeserver[other].latest < MaxLatest
          /\ app' = [app EXCEPT !.homeserver[room].latest = @ + 1]
  /\ UNCHANGED <<chat_vars, notify_vars, matrix>>

\* RoomCache::populate, which init and login call once
CachePopulate ==
  /\ ~matrix.room_cache
  /\ \E order \in JoinedOrders :
       matrix' = [matrix EXCEPT
                    !.rooms = [i \in DOMAIN order |-> from_room(order[i], app.homeserver)],
                    !.room_cache = TRUE]
  /\ app' = [app EXCEPT !.cache_log = None]
  /\ UNCHANGED <<chat_vars, notify_vars>>

\* RoomCache::timeline_event up to the lock: it returns for a room that is
\* unknown or not joined, and builds the DecoratedRoom otherwise
CacheTimelineEvent ==
  /\ \E room \in Rooms :
       IF is_joined(room, app.homeserver)
         THEN /\ Cardinality(matrix.building) < MaxBuilding
              /\ from_room(room, app.homeserver) \notin matrix.building
              /\ matrix' = [matrix EXCEPT !.building = @ \cup {from_room(room, app.homeserver)}]
              /\ app' = [app EXCEPT !.cache_log = None]
         ELSE /\ matrix' = matrix
              /\ app' = [app EXCEPT !.cache_log =
                           Some([op |-> "returned", room |-> room])]
  /\ UNCHANGED <<chat_vars, notify_vars>>

\* RoomCache::timeline_event from the lock on, in one of its tasks
CachePut ==
  /\ \E decorated \in matrix.building :
       /\ matrix' = [matrix EXCEPT !.rooms = put(@, decorated),
                                   !.building = @ \ {decorated}]
       /\ app' = [app EXCEPT !.cache_log =
                    Some([op |-> "put", room |-> decorated.room])]
  /\ UNCHANGED <<chat_vars, notify_vars>>

\* RoomCache::room_visit_event
CacheRoomVisit ==
  /\ \E room \in Rooms :
       matrix' = [matrix EXCEPT !.rooms = RoomCache_room_visit_event(@, room)]
  /\ app' = [app EXCEPT !.cache_log = None]
  /\ UNCHANGED <<chat_vars, notify_vars>>

InitCache ==
  /\ scenario = "cache"
  /\ chat = try_new(FALSE)
  /\ pending = 0
  /\ notify = Notify_default
  /\ settings = Settings_default({})
  /\ matrix = Matrix_new
  /\ app = App_new

NextCache == CacheSync \/ CachePopulate \/ CacheTimelineEvent \/ CachePut \/ CacheRoomVisit
SpecCache == InitCache /\ [][NextCache]_vars

\* the indices of the entries of a room
entries_of(rooms, room) == {i \in DOMAIN rooms : rooms[i].room = room}

\* the latest call on the cache was timeline_event, and what it did
done(op) == app.cache_log # None /\ app.cache_log[1].op = op

\* a step of timeline_event that returns before it builds the room
returns_early == app'.homeserver = app.homeserver /\ done("returned")'

\* a step of timeline_event that puts the room it built into the cache
puts(decorated) ==
  decorated \in matrix.building /\ matrix'.building = matrix.building \ {decorated}

\* C25: timeline_event for a joined room that is cached replaces the
\* room's entry in place with the DecoratedRoom it built, not visited, and
\* keeps the length of the list and the other entries where they are; for
\* a joined room that is not cached it inserts the entry at index 0; for
\* an unknown or not joined room it leaves the cache as it is.
C25_TimelineEvent ==
  [][/\ returns_early => matrix'.rooms = matrix.rooms
     /\ \A decorated \in [room : Rooms, visited : BOOLEAN, last : 0..MaxLatest] :
          puts(decorated) =>
            IF entries_of(matrix.rooms, decorated.room) # {}
              THEN /\ Len(matrix'.rooms) = Len(matrix.rooms)
                   /\ \E i \in entries_of(matrix.rooms, decorated.room) :
                        /\ matrix'.rooms[i] = decorated /\ ~matrix'.rooms[i].visited
                        /\ \A j \in DOMAIN matrix.rooms \ {i} :
                             matrix'.rooms[j] = matrix.rooms[j]
              ELSE matrix'.rooms = <<decorated>> \o matrix.rooms]_vars

\* timeline_event put a room that is not visited and has a new message
\* where the room was cached, behind a visited one
C25_ReplacedInPlace ==
  /\ done("put") /\ Len(matrix.rooms) = 2
  /\ matrix.rooms[2].room = app.cache_log[1].room
  /\ matrix.rooms[2].last = 1 /\ matrix.rooms[1].visited

\* timeline_event put a room that populate did not find in front of a
\* visited one
C25_PutInFront ==
  /\ done("put") /\ Len(matrix.rooms) = 2
  /\ matrix.rooms[1].room = app.cache_log[1].room
  /\ matrix.rooms[2].visited /\ matrix.rooms[2].last = 1

\* timeline_event returned for a cached room that was left
C25_Returned ==
  /\ done("returned") /\ app.homeserver[app.cache_log[1].room].state = "Left"
  /\ entries_of(matrix.rooms, app.cache_log[1].room) # {}

\* =====================================================================
\* The editor keys and the event thread
\* =====================================================================
MaxSessions == 2

\* the main thread is not inside get_text
idle == app.terminal.editing = None

EditorTimelineEvent == idle /\ TimelineEvent
EditorRender == idle /\ Render
EditorKeyJ == idle /\ KeyJ
EditorKeyK == idle /\ KeyK

\* an editor key reaches Chat::key_event, which parks the handler, starts
\* the typing notice for i and R, and runs the editor
EditorOpens ==
  /\ idle /\ ~chat.panicked
  /\ app.terminal.sessions < MaxSessions
  /\ \E input \in EditorKeys :
       /\ runs_editor(chat, input)
       /\ app' = [app EXCEPT !.terminal.handler = park(@),
                             !.terminal.editing = Some(input),
                             !.terminal.typing = input \in {"i", "R"},
                             !.terminal.sessions = @ + 1]
  /\ UNCHANGED <<chat_vars, notify_vars, matrix>>

\* get_text returns, and Chat::key_event goes on
EditorReturns ==
  /\ ~idle
  /\ \E answer \in EditorAnswers :
       app' = [app EXCEPT !.terminal = editor_returns(chat, @, app.terminal.editing[1], answer)]
  /\ UNCHANGED <<chat_vars, notify_vars, matrix>>

\* the event thread finds a park request
ThreadParks ==
  /\ ~app.terminal.handler.parked /\ app.terminal.handler.pk > 0
  /\ app' = [app EXCEPT !.terminal.handler = try_recv_and_park(@)]
  /\ UNCHANGED <<chat_vars, notify_vars, matrix>>

InitEditor == InitChat({"editor"}, {FALSE})
NextEditor ==
  \/ EditorTimelineEvent \/ EditorRender \/ EditorKeyJ \/ EditorKeyK
  \/ EditorOpens \/ EditorReturns \/ ThreadParks
SpecEditor == InitEditor /\ [][NextEditor]_vars

\* what the latest editor key did
last_key == app.terminal.last[1]

\* C26: whichever key ran the editor and whatever the editor run came to,
\* the key's handler has unparked the event thread and sent a Redraw
\* event once the editor has returned.
C26_UnparkedAndRedrawn ==
  app.terminal.last # None => last_key.unparked /\ last_key.redraw

\* the same of the keys c, i and R with any outcome and of v and V when
\* get_text returns no error
C26_UnparkedUnlessViewFails ==
  (app.terminal.last # None
     /\ ~(last_key.key \in {"v", "V"} /\ last_key.answer \in {"io", "status"}))
    => last_key.unparked /\ last_key.redraw

\* the editor of v has exited with a failure, no editor is open, and the
\* event thread is parked with no unpark to come
C26_LeftParked ==
  /\ idle /\ app.terminal.last # None
  /\ last_key.key = "v" /\ last_key.answer = "status"
  /\ app.terminal.handler.parked /\ app.terminal.redraws = 0

\* the editor of c could not be run before the event thread had parked:
\* the unpark left the token
C26_UnparkedBeforeParked ==
  /\ app.terminal.last # None
  /\ last_key.key = "c" /\ last_key.answer = "io" /\ app.terminal.handler.token

\* =====================================================================
\* SAS verification streams
\* =====================================================================
MaxStreams == 2
MaxChanges == 2

\* a key verification start event arrives and get_verification has a SAS
\* verification for it
SasStart ==
  /\ Len(app.verifications) < MaxStreams
  /\ app' = [app EXCEPT !.verifications = Append(@, spawn_handler(Len(@) + 1))]
  /\ UNCHANGED <<chat_vars, notify_vars, matrix>>

SasAccept ==
  /\ \E n \in DOMAIN app.verifications, answer \in {"Ok", "Err"} :
       /\ app.verifications[n].pc = "accept"
       /\ app' = [app EXCEPT !.verifications[n] = accept(@, answer)]
  /\ UNCHANGED <<chat_vars, notify_vars, matrix>>

\* the stream of a handler that waits for it reports a state
SasChange ==
  /\ \E n \in DOMAIN app.verifications, change \in SasStates :
       /\ app.verifications[n].pc = "next"
       /\ Len(app.verifications[n].reports) < MaxChanges
       /\ app' = [app EXCEPT !.verifications[n] = on_change(@, change)]
  /\ UNCHANGED <<chat_vars, notify_vars, matrix>>

SasEnd ==
  /\ \E n \in DOMAIN app.verifications :
       /\ app.verifications[n].pc = "next"
       /\ app' = [app EXCEPT !.verifications[n] = on_end(@)]
  /\ UNCHANGED <<chat_vars, notify_vars, matrix>>

InitSas ==
  /\ scenario = "sas"
  /\ chat = try_new(FALSE)
  /\ pending = 0
  /\ notify = Notify_default
  /\ settings = Settings_default({})
  /\ matrix = Matrix_new
  /\ app = App_new

NextSas == SasStart \/ SasAccept \/ SasChange \/ SasEnd
SpecSas == InitSas /\ [][NextSas]_vars

\* the names of the events sent for a report
names(report) == [i \in DOMAIN report.sent |-> report.sent[i].event]

\* what the claim has the handler send for a state
claimed(report) ==
  CASE report.change.state = "KeysExchanged" -> <<"VerificationStarted">>
    [] report.change.state = "Done" -> <<"VerificationCompleted">>
    [] OTHER -> <<>>

\* C27: for each stream, the handler sends VerificationStarted with the
\* sas and the emojis exactly for a report of KeysExchanged,
\* VerificationCompleted exactly for a report of Done, and nothing for
\* Created, Started, Accepted, Confirmed and Cancelled.
C27_Emits ==
  \A n \in DOMAIN app.verifications : \A report \in Range(app.verifications[n].reports) :
    /\ names(report) = claimed(report)
    /\ report.change.state = "KeysExchanged"
         => report.sent[1].sas = n /\ Some(report.sent[1].emojis) = report.change.emojis

\* the same of the reports other than a KeysExchanged without emojis
C27_EmitsWithEmojis ==
  \A n \in DOMAIN app.verifications : \A report \in Range(app.verifications[n].reports) :
    (report.change.state = "KeysExchanged" => report.change.emojis # None)
      => /\ names(report) = claimed(report)
         /\ report.change.state = "KeysExchanged"
              => report.sent[1].sas = n /\ Some(report.sent[1].emojis) = report.change.emojis

\* a stream reported KeysExchanged without emojis: the handler sent
\* nothing and is gone
C27_DecimalsOnly ==
  \E n \in DOMAIN app.verifications :
    /\ app.verifications[n].pc = "panicked"
    /\ \E report \in Range(app.verifications[n].reports) :
         report.change = [state |-> "KeysExchanged", emojis |-> None] /\ report.sent = <<>>

\* =====================================================================
\* The header of a reply body
\* =====================================================================
MaxBody == 5

\* the bodies of replies: quotes, blanks, line ends and text
ReplyBodies == UNION {[1..n -> {">", " ", "\n", "a"}] : n \in 0..MaxBody}

\* the renderer strips the header of the reply's body
RemoveReplyHeader ==
  /\ app.reply.out = None
  /\ app' = [app EXCEPT !.reply.out = Some(remove_reply_header(app.reply.body))]
  /\ UNCHANGED <<chat_vars, notify_vars, matrix>>

InitHeader ==
  /\ scenario = "header"
  /\ chat = try_new(FALSE)
  /\ pending = 0
  /\ notify = Notify_default
  /\ settings = Settings_default({})
  /\ matrix = Matrix_new
  /\ \E body \in ReplyBodies : app = [App_new EXCEPT !.reply.body = body]

NextHeader == RemoveReplyHeader
SpecHeader == InitHeader /\ [][NextHeader]_vars

\* lines joined by line ends
RECURSIVE join_lines(_)
join_lines(lines) ==
  IF lines = <<>> THEN <<>>
  ELSE IF Len(lines) = 1 THEN Head(lines)
  ELSE Head(lines) \o <<"\n">> \o join_lines(Tail(lines))

\* a line that starts with the given mark
starts_with(line, mark) == Len(line) >= Len(mark) /\ SubSeq(line, 1, Len(mark)) = mark

\* the lines of a body from the first one on that is neither blank nor
\* starts with the mark
RECURSIVE after_header(_, _)
after_header(lines, mark) ==
  IF lines = <<>> THEN <<>>
  ELSE IF is_blank(Head(lines)) \/ starts_with(Head(lines), mark)
    THEN after_header(Tail(lines), mark)
  ELSE lines

\* the body without its leading lines that are blank or start with the mark
without_header(body, mark) == join_lines(after_header(split_lines(body, <<>>), mark))

\* C28 as stated: remove_reply_header returns the body without every
\* leading line that is blank or starts with ">", up to the first line that
\* is neither: nothing when every line is blank or quoted, and the body as
\* it is when it has no such leading line.
C28_HeaderRemoved ==
  app.reply.out # None => app.reply.out[1] = without_header(app.reply.body, <<">">>)

\* C28: remove_reply_header returns the body without every leading line
\* that is blank or starts with ">" and a space, up to the first line that
\* is neither: nothing when every line is blank or so quoted, with or
\* without a line end at the end, and the body as it is when it has no such
\* leading line.
C28_QuotedHeaderRemoved ==
  app.reply.out # None => app.reply.out[1] = without_header(app.reply.body, <<">", " ">>)

\* a quoted line, a blank line and a line of text: the text is left
C28_HeaderAndText ==
  /\ app.reply.body = <<">", " ", "a", "\n", "a">>
  /\ app.reply.out = Some(<<"a">>)

\* a line that starts with ">" and no space is kept
C28_QuoteWithoutSpace ==
  /\ app.reply.body = <<">", "a">>
  /\ app.reply.out = Some(<<">", "a">>)

\* =====================================================================
\* A TextInput under keys and renders
\* =====================================================================
MaxValue == 4
MaxSize == 3

\* the keys of a TextInput: two characters, Left, Right and Backspace
InputKeys == {"a", "e", "Left", "Right", "Backspace"}

InputKey ==
  /\ ~app.input.textinput.panicked
  /\ \E code \in InputKeys :
       /\ code \in {"a", "e"} => Len(app.input.textinput.value) + Len(bytes(code)) <= MaxValue
       /\ app' = [app EXCEPT !.input = [textinput |-> TextInput_input(@.textinput, code),
                                        rendered |-> None]]
  /\ UNCHANGED <<chat_vars, notify_vars, matrix>>

InputRender ==
  /\ ~app.input.textinput.panicked
  /\ \E size \in 1..MaxSize :
       app' = [app EXCEPT !.input = [textinput |-> TextInput_render(@.textinput, size),
                                     rendered |-> Some(size)]]
  /\ UNCHANGED <<chat_vars, notify_vars, matrix>>

InitInput ==
  /\ scenario = "input"
  /\ chat = try_new(FALSE)
  /\ pending = 0
  /\ notify = Notify_default
  /\ settings = Settings_default({})
  /\ matrix = Matrix_new
  /\ app = App_new

NextInput == InputKey \/ InputRender
SpecInput == InitInput /\ [][NextInput]_vars

\* the TextInput has just been rendered at the given width
rendered_at(size) == app.input.rendered = Some(size)

\* the value is made of characters of one byte
ascii(t) == \A i \in DOMAIN t.value : t.value[i] = "a"

\* C29: after every render of a focused TextInput at any width, after any
\* keys, the cursor block lies inside the rendered slice of the value,
\* left <= cursor < left + width, and left is 0 whenever the whole value
\* fits in the width.
C29_CursorInside ==
  \A size \in 1..MaxSize : rendered_at(size) =>
    LET t == app.input.textinput IN
    /\ ~t.panicked
    /\ t.left <= t.cursor /\ t.cursor < t.left + size
    /\ Len(t.value) <= size => t.left = 0

\* after a render, left is 0 whenever the whole value fits in the width
C29_LeftZeroWhenFits ==
  \A size \in 1..MaxSize : rendered_at(size) =>
    (Len(app.input.textinput.value) <= size => app.input.textinput.left = 0)

\* a value that fills the width with the cursor behind it: the block is
\* outside the width
C29_BlockBehindFullWidth ==
  /\ rendered_at(3) /\ ascii(app.input.textinput)
  /\ Len(app.input.textinput.value) = 3 /\ app.input.textinput.cursor = 3
  /\ app.input.textinput.left = 0 /\ ~app.input.textinput.panicked

\* a value of one-byte characters longer than the width, the cursor moved
\* left to the position before the window: the render scrolls right past
\* the cursor and panics in the slice of the displayed value
C29_SliceInsideBlock ==
  /\ rendered_at(2) /\ ascii(app.input.textinput) /\ app.input.textinput.panicked
  /\ app.input.textinput.cursor < app.input.textinput.left

\* =====================================================================
\* Fetching the previous page
\* =====================================================================
InitFetch == InitChat({"delete"}, {FALSE, TRUE})
NextFetch == TimelineEvent \/ BatchEvent \/ Render \/ KeyK \/ SearchEvent
SpecFetch == InitFetch /\ [][NextFetch]_vars

\* Chat::batch_event up to its call of try_fetch_previous
before_fetch(c, batch) ==
  Then([c EXCEPT !.next_cursor = batch.cursor], LAMBDA cursored :
  Then(insert_batch(cursored, batch.events), LAMBDA inserted :
  Then(set_messages(inserted, FALSE), LAMBDA listed :
  Then([listed EXCEPT !.fetching = FALSE], LAMBDA fetched :
  Then(set_fully_read(fetched), LAMBDA read :
  IF c.messages = <<>> THEN [read EXCEPT !.list_state.selected = Some(0)] ELSE read)))))

\* the states of the chat in which its handlers call try_fetch_previous:
\* after next(1) for the key k, after set_messages in search_event, and at
\* the end of batch_event for a batch with events
call_sites ==
  IF chat.panicked THEN {}
  ELSE {c \in (IF chat.line_types # <<>> THEN {next(chat, 1)} ELSE {})
                \cup {set_messages([chat EXCEPT !.search_term = search_term], FALSE) :
                        search_term \in SearchTerms}
                \cup (IF pending > 0
                      THEN {before_fetch(chat, batch) :
                              batch \in {b \in Batches(chat, scenario) : b.events # <<>>}}
                      ELSE {}) :
          ~c.panicked}

\* the commands try_fetch_previous issues from the state c
issued(c) == SubSeq(try_fetch_previous(c).out, Len(c.out) + 1, Len(try_fetch_previous(c).out))

\* the rendered lines from the selection up
lines_above(c) ==
  total_list_items(c) - (IF c.list_state.selected = None THEN 0 ELSE c.list_state.selected[1])

C30_FetchPreviousInRange ==
  \A c \in call_sites :
    (lines_above(c) >= 0 \/ ~c.checked) =>
      /\ issued(c) # <<>>
           => /\ c.next_cursor # None /\ ~c.fetching
              /\ lines_above(c) < 100 /\ Len(c.events) < max_events
              /\ Len(issued(c)) = 1 /\ issued(c)[1].cmd = "fetch_messages"
              /\ issued(c)[1].cursor = c.next_cursor
              /\ try_fetch_previous(c) = [c EXCEPT !.out = @ \o issued(c), !.fetching = TRUE]
      /\ issued(c) = <<>> => try_fetch_previous(c) = c

\* a search found nothing, the key k moved the selection and the empty
\* list was drawn: the selection is beyond the lines when the next handler
\* calls try_fetch_previous with a cursor and no fetch in flight, and a
\* build that checks for overflow panics
C30_SelectionBeyondLines ==
  \E c \in call_sites :
    /\ c.checked /\ c.next_cursor # None /\ ~c.fetching /\ lines_above(c) < 0
    /\ try_fetch_previous(c).panicked

\* ------------------------------------------- back-fill of a finite history
\* The room has a finite history on the server: the events of the scenario,
\* newest first.  A pagination token is the number of events of the history
\* that the pages before it have returned; pending holds the cursors of the
\* fetch_messages requests in flight, oldest first.
ServerHistory(sc) ==
  Descending({[id |-> t.id, ts |-> 1, room |-> t.room, sender |-> t.sender, type |-> t.type,
               rel |-> t.rel, target |-> t.target, body |-> t.body, key |-> t.key] :
                t \in Templates(sc)})

\* where the page of a request starts
position(cursor) == IF cursor = None THEN 0 ELSE cursor[1]

\* the pages the server can answer a request with: up to MaxBatch of the next
\* older events, none of them possibly, and the token behind them, which a
\* server may leave out once the history is exhausted
Pages(cursor, sc) ==
  LET history == ServerHistory(sc)
      from == position(cursor)
      ends(n) == {Some(from + n)} \cup (IF from + n = Len(history) THEN {None} ELSE {})
  IN UNION {{[room |-> ROOM, events |-> SubSeq(history, from + 1, from + n), cursor |-> end] :
               end \in ends(n)} :
              n \in 0..Min(MaxBatch, Len(history) - from)}

\* the cursors of the fetch_messages requests a handler issued
requested(h) ==
  LET fetch(command) == command.cmd = "fetch_messages"
      fetches == SelectSeq(h.out, fetch)
  IN [i \in DOMAIN fetches |-> fetches[i].cursor]

BackfillHandled(h) ==
  /\ ~chat.panicked
  /\ chat' = Begin(h)
  /\ pending' = pending \o requested(h)
  /\ UNCHANGED <<scenario, notify_vars, facade_vars>>

\* the facade answers the oldest request in flight
BackfillBatch ==
  /\ pending # <<>>
  /\ ~chat.panicked
  /\ \E b \in Pages(Head(pending), scenario) : \E h \in {batch_event(chat, b)} :
       /\ chat' = Begin(h)
       /\ pending' = Tail(pending) \o requested(h)
       /\ UNCHANGED <<scenario, notify_vars, facade_vars>>

BackfillSearch ==
  \E search_term \in SearchTerms : \E h \in {search_event(chat, search_term)} : BackfillHandled(h)

BackfillRender ==
  \E clamps \in BOOLEAN : \E h \in {render(chat, clamps)} : BackfillHandled(h)

\* opening the chat issued the first request, without a cursor
InitBackfill ==
  /\ scenario \in {"delete", "page"}
  /\ chat = try_new(FALSE)
  /\ pending = <<None>>
  /\ notify = Notify_default
  /\ settings = Settings_default({})
  /\ matrix = Matrix_new
  /\ app = App_new
NextBackfill == BackfillBatch \/ BackfillSearch \/ BackfillRender
SpecBackfill == InitBackfill /\ [][NextBackfill]_vars
\* the runtime runs the task of every request and the server answers it
SpecBackfillFair == SpecBackfill /\ WF_vars(BackfillBatch)

\* the batches without events that may reach the chat
EmptyBatches ==
  {[room |-> ROOM, events |-> <<>>, cursor |-> cursor] :
     cursor \in {None} \cup {Some(n) : n \in 0..Len(ServerHistory(scenario))}}

\* batch_event issues no fetch_messages request for a batch without events
empty_batch_ends_chain ==
  \A b \in EmptyBatches : requested(batch_event(Begin(chat), b)) = <<>>

\* C31: batch_event never issues a further fetch for a batch with zero
\* events, and the chain of back-fill fetches that opening a chat or a search
\* started on a room with a finite history terminates: whenever a request is
\* in flight, a state without any request in flight follows.
C31_BackfillTerminates ==
  /\ [](empty_batch_ends_chain)
  /\ [](pending # <<>> => <>(pending = <<>>))

\* the whole history is stored, the server still hands out a token, and the
\* request for the page behind it is in flight: try_fetch_previous would ask
\* again, and only the empty page ends the chain
C31_EmptyPageAtEnd ==
  /\ pending = <<Some(Len(ServerHistory(scenario)))>>
  /\ Len(chat.events) = Len(ServerHistory(scenario))
  /\ \E b \in Pages(Head(pending), scenario) :
       /\ b.events = <<>> /\ b.cursor # None
       /\ requested(batch_event(Begin(chat), b)) = <<>>
       /\ requested(try_fetch_previous(Begin([chat EXCEPT !.fetching = FALSE,
                                                           !.next_cursor = b.cursor]))) # <<>>

\* ----------------------------------------------------------- orphan replies
\* replies whose parent is missing, of an unsupported type, or later in
\* timestamp order
InitOrphans == InitChat({"orphan"}, {FALSE})
NextOrphans == TimelineEvent
SpecOrphans == InitOrphans /\ [][NextOrphans]_vars

\* the tree at the point the i-th stored event is applied
tree_before(c, i) == ingest(<<>>, SubSeq(c.events, 1, i - 1))

\* the i-th stored event is a reply that can make a message, and its parent
\* is not in the tree when it is applied
orphan(c, i) ==
  /\ c.events[i].type = "message" /\ c.events[i].rel = "reply"
  /\ c.events[i].body.msgtype \in SupportedTypes
  /\ c.events[i].target \notin Range(tree_ids(tree_before(c, i)))

\* the event stands in the list as a top-level message that names its parent
top_level_reply(c, event) ==
  \E k \in DOMAIN c.messages :
    /\ c.messages[k].id = event.id
    /\ c.messages[k].in_reply_to = Some(event.target)
    /\ c.messages[k].body = event.body

\* C32: in the rebuilt message list, a text, image, video or file reply whose
\* parent is not in the tree at the point the reply is applied (missing,
\* later in timestamp order, or of an unsupported type) is a top-level
\* message with in_reply_to set to the id of the parent.
C32_OrphanKept ==
  \A i \in DOMAIN chat.events :
    orphan(chat, i) => top_level_reply(chat, chat.events[i])

\* all three kinds at once: reply 5 to an event that never came, reply 4 to
\* the emote 3, and reply 2 stored before its parent 1
C32_ThreeOrphans ==
  /\ Len(chat.events) = 5
  /\ \A id \in {2, 4, 5} : orphan(chat, event_index(chat, id))
  /\ event_index(chat, 2) < event_index(chat, 1)
  /\ event_index(chat, 3) < event_index(chat, 4)
  /\ \A id \in {2, 4, 5} : top_level_reply(chat, chat.events[event_index(chat, id)])

\* ------------------------------------------------- the window of the chat
\* Two rooms: a short one that still receives events, batches, receipts and
\* members and is searched, and a long one, longer than the window, in which
\* the selection moves.  The long room holds LongLen plain messages of one
\* line each from one sender.
LongLen == 203

\* the events of the long room, oldest first as the BTreeSet keeps them
LongEvents ==
  [i \in 1..LongLen |->
     [id |-> i, ts |-> 1, room |-> ROOM, sender |-> "u1", type |-> "message",
      rel |-> "none", target |-> 0, body |-> text(<<"a">>), key |-> ""]]

\* the list make_message_list derives from them: a message for each, newest first
LongMessages == [i \in 1..LongLen |-> try_from(LongEvents[LongLen + 1 - i], FALSE)[1]]

\* the lines ChatWidget::render collects for a window of such messages: the
\* body, the start and the dead space of each, bottom to top
plain_lines(window) ==
  [k \in 1..(3 * Len(window)) |->
     CASE (k - 1) % 3 = 0 -> MessageContent
       [] (k - 1) % 3 = 1 -> MessageStart(window[(k - 1) \div 3 + 1].id)
       [] OTHER -> DeadSpace]

\* the long chat after a render with the message at index (0-based) of the list
\* selected, the selection on the top or on the bottom row of the screen
rendered_long(index, top) ==
  LET start == SatSub(index, WindowBefore)
      end == Min(index + WindowAfter, LongLen)
      selected == 3 * (index - start) + 1
  IN [try_new(FALSE) EXCEPT
        !.events = LongEvents, !.messages = LongMessages,
        !.window = [start |-> start, end |-> end],
        !.line_types = plain_lines(SubSeq(LongMessages, start + 1, end)),
        !.list_state = [selected |-> Some(selected),
                        offset |-> IF top THEN SatSub(selected, Height - 1) ELSE selected],
        !.height = Height, !.fetching = FALSE, !.in_flight = <<"u1">>,
        !.read_to = Some(LongLen)]

\* the messages of the long list a render may have left selected
Selections == {0, 1, WindowBefore, WindowBefore + 1, LongLen - WindowAfter, LongLen - 1}

\* the members the facade reports: those the chat has asked for
Members(c) == {[user_id |-> c.in_flight[i], display_name |-> Some(<<"A">>)] : i \in DOMAIN c.in_flight}

WindowTimelineEvent ==
  /\ scenario # "long"
  /\ \E e \in Range(ServerHistory(scenario)) : \E h \in {timeline_event(chat, e)} : Handled(h)
\* the facade answers the request for the page behind the cursor of the chat
WindowBatchEvent ==
  /\ scenario # "long"
  /\ pending > 0
  /\ ~chat.panicked
  /\ \E b \in Pages(chat.next_cursor, scenario) : \E h \in {batch_event(chat, b)} :
       /\ chat' = Begin(h)
       /\ pending' = pending - 1 + Fetches(h)
       /\ UNCHANGED <<scenario, notify_vars, facade_vars>>
WindowSearchEvent == scenario # "long" /\ SearchEvent
WindowRender == scenario # "long" /\ Render
WindowReceiptEvent ==
  /\ scenario # "long"
  /\ \E room \in Rooms, content \in {<<[user_id |-> "u1", ts |-> Some(1)]>>} :
       \E h \in {receipt_event(chat, room, content)} : Handled(h)
WindowRoomMemberEvent ==
  /\ scenario # "long"
  /\ \E room \in Rooms, member \in Members(chat) :
       \E h \in {room_member_event(chat, room, member)} : Handled(h)
WindowCtrlU == chat.line_types # <<>> /\ \E h \in {key_ctrl_u(chat)} : Handled(h)
WindowCtrlD == chat.line_types # <<>> /\ \E h \in {key_ctrl_d(chat)} : Handled(h)

InitWindow ==
  /\ \/ scenario = "window" /\ chat = try_new(FALSE) /\ pending = 1
     \/ /\ scenario = "long"
        /\ \E index \in Selections, top \in BOOLEAN : chat = rendered_long(index, top)
        /\ pending = 0
  /\ notify = Notify_default
  /\ settings = Settings_default({})
  /\ matrix = Matrix_new
  /\ app = App_new
NextWindow ==
  \/ WindowTimelineEvent \/ WindowBatchEvent \/ WindowReceiptEvent \/ WindowRoomMemberEvent
  \/ WindowSearchEvent \/ WindowRender
  \/ KeyK \/ KeyJ \/ WindowCtrlU \/ WindowCtrlD \/ KeyG
SpecWindow == InitWindow /\ [][NextWindow]_vars

\* the window is a range of the message list of at most 201 messages, and
\* 0..0 when there are no messages
window_in_list(c) ==
  /\ c.window.start <= c.window.end /\ c.window.end <= Len(c.messages)
  /\ c.window.end - c.window.start <= WindowBefore + WindowAfter
  /\ c.messages = <<>> => c.window = [start |-> 0, end |-> 0]

\* the 0-based indices of the top-level messages that hold the bookmarked message
bookmarked(c) ==
  {k - 1 : k \in {j \in DOMAIN c.messages : contains_id(c.messages[j], c.bookmark[1].message_id)}}

\* the window contains the index of the bookmarked message
window_holds_bookmark(c) ==
  \E k \in bookmarked(c) : c.window.start <= k /\ k < c.window.end

\* the operation before stored the bookmark: adjust_range does so unless the
\* list is empty or the list is at the bottom (selection 0 and offset 0)
stored_bookmark(c) ==
  /\ c.bookmark # None /\ c.messages # <<>>
  /\ ~(c.list_state.offset = 0 /\ c.list_state.selected \in {None, Some(0)})

\* C33: after every chat operation the window satisfies start <= end <=
\* messages.len() and end - start <= 201, it is 0..0 when there are no
\* messages, and when a bookmark exists the window contains the index of the
\* bookmarked message.
C33_WindowHoldsBookmark ==
  /\ window_in_list(chat)
  /\ chat.bookmark # None => window_holds_bookmark(chat)

\* the same, of the bookmarks the operation stored whose message is in the list
C33_WindowHoldsStoredBookmark ==
  /\ window_in_list(chat)
  /\ stored_bookmark(chat) /\ bookmarked(chat) # {} => window_holds_bookmark(chat)

\* the selection moved in the long list: the window is cut on both sides, is
\* 201 messages long and holds the message the operation bookmarked
C33_CutOnBothSides ==
  /\ scenario = "long"
  /\ chat.window.start > 0 /\ chat.window.end < Len(chat.messages)
  /\ chat.window.end - chat.window.start = WindowBefore + WindowAfter
  /\ stored_bookmark(chat) /\ window_holds_bookmark(chat)
  /\ chat.bookmark[1].message_id # chat.line_types[2].id

\* a search filtered the bookmarked message out of the list
C33_BookmarkedMessageGone ==
  /\ chat.bookmark # None /\ bookmarked(chat) = {}

\* ------------------------------------------------ motions of the selection
\* the chat after the key k, Ctrl-u, j or Ctrl-d moved the selection
motions_up(c) == {next(c, 1), next(c, c.height \div 2)}
motions_down(c) == {previous(c, 1), previous(c, c.height \div 2)}

\* the selection is an index into the rendered lines
on_a_line(c) ==
  c.list_state.selected # None /\ c.list_state.selected[1] < Len(c.line_types)

\* the selection is on a rendered line that is not dead space
on_a_live_line(c) ==
  on_a_line(c) /\ c.line_types[c.list_state.selected[1] + 1] # DeadSpace

\* C34: after any next or previous motion (single step or half page) from
\* any selection, the ends of the rendered list included, the selected
\* index is a valid index into the rendered lines and its line is not a
\* dead-space line.
C34_MotionSelectsLine ==
  chat.line_types # <<>> /\ ~chat.panicked =>
    \A h \in motions_up(chat) \cup motions_down(chat) : on_a_live_line(h)

\* the same of the motions down from a selection on a line, and of the motions
\* up that stop below the top line of the list
C34_SelectsLineBelowTop ==
  chat.line_types # <<>> /\ ~chat.panicked /\ on_a_line(chat) =>
    /\ \A h \in motions_down(chat) : on_a_live_line(h)
    /\ \A step \in {1, chat.height \div 2} :
         chat.list_state.selected[1] + step < Len(chat.line_types) - 1
           => on_a_live_line(next(chat, step))

\* the key k at the top of the rendered list: the top line is the dead space
\* of the oldest message, and the selection is moved one past it
C34_PastTheTop ==
  /\ chat.line_types # <<>> /\ on_a_live_line(chat)
  /\ chat.line_types[Len(chat.line_types)] = DeadSpace
  /\ next(chat, 1).list_state.selected = Some(Len(chat.line_types))

\* ------------------------------------------------- the members of the room
\* at most this many RoomMember events reach the chat
MaxMembers == 2

\* MatuiEvent::RoomMember reaches Chat::room_member_event: the answer to a
\* fetch_room_member of this chat or of an earlier one, for either room
RoomMemberEvent ==
  /\ Len(chat.members) < MaxMembers
  /\ \E room \in Rooms, u \in Users :
       \E h \in {room_member_event(chat, room, [user_id |-> u, display_name |-> None])} :
         Handled(h)

\* receipts of one user, and of two users who read up to the same time
MemberReceipts ==
  {<<[user_id |-> u, ts |-> Some(1)]>> : u \in Users}
    \cup {<<[user_id |-> "u1", ts |-> Some(1)], [user_id |-> "u2", ts |-> Some(1)]>>}

MemberReceiptEvent ==
  \E room \in Rooms, content \in MemberReceipts :
    \E h \in {receipt_event(chat, room, content)} : Handled(h)

InitMembers == InitChat({"delete"}, {FALSE})
NextMembers == TimelineEvent \/ MemberReceiptEvent \/ RoomMemberEvent
SpecMembers == InitMembers /\ [][NextMembers]_vars

known(c, u) == \E i \in DOMAIN c.members : c.members[i].user_id = u
in_flight(c, u) == \E i \in DOMAIN c.in_flight : c.in_flight[i] = u

\* how many fetch_room_member requests for u a handler issued
member_fetches(h, u) ==
  Cardinality({i \in DOMAIN h.out : h.out[i].cmd = "fetch_room_member" /\ h.out[i].user_id = u})

\* the handlers that call check_sender, run on the chat with each of their inputs
sender_checks(c) ==
  {timeline_event(Begin(c), e) : e \in Deliverable(c, scenario)}
    \cup {batch_event(Begin(c), b) : b \in Batches(c, scenario)}
    \cup {receipt_event(Begin(c), room, content) : room \in Rooms, content \in MemberReceipts}

\* C35: for every user id the chat issues at most one fetch_room_member
\* request, and only while the user is neither a known member nor in
\* flight, after which the user is in flight; room_member_event moves the
\* user from in_flight to members; no user id is both in in_flight and in
\* members, nor twice in in_flight.
C35_OneMemberFetch ==
  \A u \in Users :
    /\ ~(known(chat, u) /\ in_flight(chat, u))
    /\ Cardinality({i \in DOMAIN chat.in_flight : chat.in_flight[i] = u}) <= 1
    /\ \A h \in sender_checks(chat) :
         /\ member_fetches(h, u) <= 1
         /\ known(chat, u) \/ in_flight(chat, u) => member_fetches(h, u) = 0
         /\ member_fetches(h, u) = 1 => in_flight(h, u) /\ ~known(h, u)
    /\ LET h == room_member_event(chat, ROOM, [user_id |-> u, display_name |-> None])
       IN known(h, u) /\ ~in_flight(h, u)

\* u1 is in flight and a batch brings two more events, one of u1 and one of
\* u2: one request, for u2; and the answer for u1 makes u1 a member
C35_SecondSender ==
  /\ in_flight(chat, "u1") /\ ~in_flight(chat, "u2") /\ ~known(chat, "u2")
  /\ \E b \in Batches(chat, scenario) :
       /\ {b.events[i].sender : i \in DOMAIN b.events} = {"u1", "u2"}
       /\ member_fetches(batch_event(Begin(chat), b), "u1") = 0
       /\ member_fetches(batch_event(Begin(chat), b), "u2") = 1
  /\ known(room_member_event(chat, ROOM, [user_id |-> "u1", display_name |-> None]), "u1")

\* ------------------------------------------------- the order of arrival
\* every order in which the events of a set can arrive
arrival_orders(S) ==
  {s \in [1..Cardinality(S) -> S] : \A i, j \in 1..Cardinality(S) : s[i] = s[j] => i = j}

\* the events of a set in origin-timestamp order, the event-id breaking ties
RECURSIVE in_timestamp_order(_)
in_timestamp_order(S) ==
  IF S = {} THEN <<>>
  ELSE LET first_of == CHOOSE x \in S : \A y \in S \ {x} :
                         x.ts < y.ts \/ (x.ts = y.ts /\ x.id < y.id)
       IN <<first_of>> \o in_timestamp_order(S \ {first_of})

\* a new chat that receives the events in the given order: the first n_live
\* of them by timeline_event one by one, the others in one batch_event
RECURSIVE deliver_live(_, _)
deliver_live(c, arriving) ==
  IF arriving = <<>> THEN c
  ELSE Then(timeline_event(c, Head(arriving)), LAMBDA got : deliver_live(got, Tail(arriving)))

arrived(arriving, n_live) ==
  Then(deliver_live(try_new(FALSE), SubSeq(arriving, 1, n_live)), LAMBDA got :
  IF n_live = Len(arriving) THEN got
  ELSE batch_event(got, [room |-> ROOM, events |-> SubSeq(arriving, n_live + 1, Len(arriving)),
                         cursor |-> None]))

\* the list built from the events applied in origin-timestamp order
in_order(S) ==
  make_message_list(in_timestamp_order(S), chat.members, chat.receipts, chat.search_term)

\* C36: the message tree of a chat depends only on the set of events
\* ingested: for every arrival order of the stored events, distinct by id,
\* delivered by timeline_event and batch_event in any mix, the message list
\* is the same, the one built from the events in origin-timestamp order.
C36_ArrivalOrder ==
  LET S == Range(chat.events) IN
  /\ Cardinality(S) = Len(chat.events)
  /\ \A x, y \in S : x.id = y.id => x = y
  /\ chat.messages = in_order(S)
  /\ \A arriving \in arrival_orders(S) : \A n_live \in 0..Len(arriving) :
       arrived(arriving, n_live).messages = chat.messages

\* the reply, the edit and the reaction are stored with their message, the
\* reply before or with the message in timestamp order, and they can arrive
\* before the message or after it
C36_RepliesFirst ==
  /\ Len(chat.events) = 4
  /\ tree_ids(chat.messages) = <<1, 2>>
  /\ chat.messages[1].history # <<>> /\ chat.messages[1].reactions # <<>>
  /\ \E arriving \in arrival_orders(Range(chat.events)) :
       /\ arriving[4].id = 1 /\ arriving # chat.events
       /\ arrived(arriving, 2).messages = chat.messages

\* ------------------------------------------------------------ typing
\* at most this many begin/end pairs, and refreshes of one worker
MaxTypings == 2
MaxRefreshes == 2

\* the key i or R: the UI thread calls begin_typing, runs the editor, and
\* calls end_typing
TypingBegin ==
  /\ Len(matrix.typing.workers) < MaxTypings
  /\ \A n \in DOMAIN matrix.typing.workers : matrix.typing.workers[n].sender = "dropped"
  /\ matrix' = [matrix EXCEPT !.typing = begin_typing(@)]
  /\ UNCHANGED <<chat_vars, notify_vars, app>>

TypingEnd ==
  \E n \in DOMAIN matrix.typing.workers :
    /\ matrix.typing.workers[n].sender # "dropped"
    /\ matrix' = [matrix EXCEPT !.typing = end_typing(@, n)]
    /\ UNCHANGED <<chat_vars, notify_vars, app>>

\* the refreshes a worker has issued
refreshes(t, n) ==
  Cardinality({i \in DOMAIN t.issued : t.issued[i] = [worker |-> n, typing |-> TRUE]})

\* a worker step; the worker refreshes at most MaxRefreshes times while the
\* editor is open
TypingWorker ==
  \E n \in DOMAIN matrix.typing.workers :
    /\ matrix.typing.workers[n].pc # "returned"
    /\ matrix.typing.workers[n].pc = "typing_notification"
         => refreshes(matrix.typing, n) < MaxRefreshes \/ matrix.typing.workers[n].sender # "held"
    /\ matrix' = [matrix EXCEPT !.typing = typing_worker(@, n)]
    /\ UNCHANGED <<chat_vars, notify_vars, app>>

InitTyping ==
  /\ scenario = "typing"
  /\ chat = try_new(FALSE)
  /\ pending = 0
  /\ notify = Notify_default
  /\ settings = Settings_default({})
  /\ matrix = Matrix_new
  /\ app = App_new
NextTyping == TypingBegin \/ TypingEnd \/ TypingWorker
SpecTyping == InitTyping /\ [][NextTyping]_vars

\* the places in the calls issued of the typing = false of a begin/end pair
\* and of the typing = true signals issued after it
ended_at(t, n) == {i \in DOMAIN t.issued : t.issued[i] = [worker |-> n, typing |-> FALSE]}
late_refreshes(t, n) ==
  {j \in DOMAIN t.issued :
     t.issued[j] = [worker |-> n, typing |-> TRUE] /\ \E i \in ended_at(t, n) : i < j}

\* C37: for every interleaving of the typing worker with end_typing, no
\* typing = true signal is issued after the typing = false signal of
\* end_typing, and after end_typing the worker does not refresh again.
C37_FalseIsLast ==
  \A n \in DOMAIN matrix.typing.workers : late_refreshes(matrix.typing, n) = {}

\* the worker issues at most one refresh after the typing = false, the one it
\* had decided on before the stop message was sent, and none once it has
\* looked at its channel again
C37_AtMostOneLate ==
  \A n \in DOMAIN matrix.typing.workers :
    /\ Cardinality(late_refreshes(matrix.typing, n)) <= 1
    /\ late_refreshes(matrix.typing, n) # {}
         => matrix.typing.workers[n].pc \in {"sleep", "try_recv", "returned"}

\* the worker found its channel empty, end_typing ran to its end, and the
\* worker issued typing = true after the typing = false
C37_RefreshAfterEnd ==
  \E n \in DOMAIN matrix.typing.workers :
    /\ matrix.typing.workers[n].sender = "dropped"
    /\ late_refreshes(matrix.typing, n) # {}
    /\ matrix.typing.issued[Len(matrix.typing.issued)] = [worker |-> n, typing |-> TRUE]

\* --------------------------------------------- a fetch that ends in failure
\* The requests of pending are answered by the block of fetch_messages: it
\* runs to its end with one of the results of room.messages, and what it
\* sent reaches handle_app_event.  matrix.tasks keeps the blocks that ended
\* without a batch.
FetchResults == {"Ok", "Undeserializable", "Err"}

\* the block of one fetch_messages request, run to its end
fetch_block(result) ==
  LET spawned == [Matrix_new EXCEPT !.tasks = <<Task("fetch_messages", FALSE)>>]
      started == fetch_messages(spawned, 1, Answer("run", "", ""))
  IN fetch_messages(started, 1, Answer(result, "", "")).tasks[1]

sends(t, event) == \E i \in DOMAIN t.trace : t.trace[i] = event

\* handle_app_event for MatuiEvent::Error
handle_error(a, msg) == [a EXCEPT !.error = Some(msg)]

\* the block sent a TimelineBatch: handle_app_event hands it to batch_event
RefetchBatch ==
  /\ pending # <<>>
  /\ ~chat.panicked
  /\ \E result \in FetchResults : \E t \in {fetch_block(result)} :
       /\ sends(t, TimelineBatch)
       /\ \E b \in Pages(Head(pending), scenario) : \E h \in {batch_event(chat, b)} :
            /\ chat' = Begin(h)
            /\ pending' = Tail(pending) \o requested(h)
  /\ UNCHANGED <<scenario, notify_vars, facade_vars>>

\* the block ended without a TimelineBatch: the chat hears nothing of it
RefetchFailure ==
  /\ pending # <<>>
  /\ ~chat.panicked
  /\ \E result \in FetchResults : \E t \in {fetch_block(result)} :
       /\ ~sends(t, TimelineBatch)
       /\ pending' = Tail(pending)
       /\ matrix' = [matrix EXCEPT !.tasks = Append(@, t)]
       /\ app' = IF sends(t, Error(ErrString)) THEN handle_error(app, ErrString) ELSE app
  /\ UNCHANGED <<chat, scenario, notify_vars>>

InitRefetch == InitBackfill
NextRefetch == RefetchBatch \/ RefetchFailure \/ BackfillSearch \/ BackfillRender
SpecRefetch == InitRefetch /\ [][NextRefetch]_vars
\* the runtime runs the block of every request to its end
SpecRefetchFair == SpecRefetch /\ WF_vars(RefetchBatch \/ RefetchFailure)

\* a block of fetch_messages ended without a batch
fetch_failed == matrix.tasks # <<>>

\* C38: every fetch_messages request a chat issued is eventually followed by
\* the chat clearing its fetching guard, whether the request succeeds or
\* fails.
C38_GuardCleared == [](pending # <<>> => <>(~chat.fetching))

\* the guard is cleared after every request unless a block ended without a
\* batch
C38_ClearedUnlessFailed == [](pending # <<>> => <>(~chat.fetching \/ fetch_failed))

\* room.messages failed for the only request in flight: the error is shown,
\* no request is in flight, the guard is set and with it no handler of the
\* chat asks again
C38_GuardLeftSet ==
  /\ pending = <<>> /\ chat.fetching /\ app.error = Some(ErrString)
  /\ chat.line_types # <<>>
  /\ requested(key_k(Begin(chat))) = <<>>
  /\ \A b \in SearchTerms : requested(search_event(Begin(chat), b)) = <<>>

\* ------------------------------------------------- selecting a room again
\* pending holds the fetch_messages requests in flight: the room and the
\* cursor of each, and whether the Chat that issued it is still App::chat.
\* Every request runs in a task of its own, so the batches arrive in any
\* order.  Both rooms have the history of the scenario.
MaxInFlight == 3

\* the operators of the chat call the chat's own room ROOM
own_room(room) == IF room = app.room THEN ROOM ELSE CHOOSE other \in Rooms : other # ROOM

\* the requests a handler of App::chat issued
own_requests(h) ==
  [i \in DOMAIN requested(h) |-> [room |-> app.room, cursor |-> requested(h)[i], own |-> TRUE]]

\* App::select_room: nothing for the room of App::chat; otherwise a new Chat
\* takes the place of the old one (no receipts are cached here), and
\* Chat::try_new has issued its first request
select_room(c, room) == IF room = app.room THEN c ELSE try_new(c.checked)

SelectRoom ==
  /\ Len(pending) < MaxInFlight
  /\ ~chat.panicked
  /\ \E room \in Rooms \ {app.room} : \E h \in {select_room(chat, room)} :
       /\ chat' = h
       /\ app' = [app EXCEPT !.room = room]
       /\ pending' = [i \in DOMAIN pending |-> [pending[i] EXCEPT !.own = FALSE]]
                       \o <<[room |-> room, cursor |-> None, own |-> TRUE]>>
       /\ notify' = Notify_room_visit_event(notify, room)
  /\ UNCHANGED <<scenario, settings, matrix>>

\* handle_app_event(TimelineBatch): the answer to any request in flight
\* reaches the Chat that is App::chat now
SelectBatch ==
  /\ ~chat.panicked
  /\ \E i \in DOMAIN pending : \E b \in Pages(pending[i].cursor, scenario) :
       \E h \in {batch_event(chat, [b EXCEPT !.room = own_room(pending[i].room)])} :
         /\ chat' = Begin(h)
         /\ pending' = RemoveAt(pending, i) \o own_requests(h)
  /\ UNCHANGED <<scenario, notify_vars, facade_vars>>

SelectHandled(h) ==
  /\ ~chat.panicked
  /\ chat' = Begin(h)
  /\ pending' = pending \o own_requests(h)
  /\ UNCHANGED <<scenario, notify_vars, facade_vars>>

SelectRender == \E clamps \in BOOLEAN : \E h \in {render(chat, clamps)} : SelectHandled(h)
SelectKeyK == chat.line_types # <<>> /\ \E h \in {key_k(chat)} : SelectHandled(h)

InitSelect ==
  /\ scenario = "delete"
  /\ chat = try_new(FALSE)
  /\ pending = <<[room |-> ROOM, cursor |-> None, own |-> TRUE]>>
  /\ notify = Notify_default
  /\ settings = Settings_default({})
  /\ matrix = Matrix_new
  /\ app = App_new
NextSelect == SelectRoom \/ SelectBatch \/ SelectRender \/ SelectKeyK
SpecSelect == InitSelect /\ [][NextSelect]_vars

\* the requests in flight that App::chat issued
outstanding == {i \in DOMAIN pending : pending[i].own}

\* C39: at any time at most one fetch_messages request issued by the Chat is
\* outstanding, for every sequence of room selections, key events and
\* batches, a batch requested by an earlier Chat of the same room included.
C39_OneOutstanding == Cardinality(outstanding) <= 1

\* the room was left and selected again, the batch an earlier Chat of the
\* room had asked for arrived first, and the Chat asked for the page behind
\* it: its first request and that one are both in flight
C39_TwoInFlight ==
  \E i, j \in outstanding :
    /\ pending[i].cursor = None /\ pending[j].cursor # None
    /\ \A k \in DOMAIN pending : pending[k].room = app.room => pending[k].own

\* ------------------------------------------- parking the event thread
\* The main thread calls park before it runs the editor and unpark after
\* it; the event thread runs its loop meanwhile.
MaxPairs == 3

\* EventHandler::park as the editor is about to run
ParkCall ==
  /\ idle
  /\ app.terminal.sessions < MaxPairs
  /\ app' = [app EXCEPT !.terminal.handler = park(@),
                        !.terminal.editing = Some("c"),
                        !.terminal.sessions = @ + 1]
  /\ UNCHANGED <<chat_vars, notify_vars, matrix>>

\* EventHandler::unpark after the editor
UnparkCall ==
  /\ ~idle
  /\ app' = [app EXCEPT !.terminal.handler = unpark(@), !.terminal.editing = None]
  /\ UNCHANGED <<chat_vars, notify_vars, matrix>>

\* a step of the event thread
ThreadStep ==
  /\ ~app.terminal.handler.parked
  /\ \E polled, fresh, due \in BOOLEAN :
       app' = [app EXCEPT !.terminal.handler = handler_loop(@, polled, fresh, due)]
  /\ UNCHANGED <<chat_vars, notify_vars, matrix>>

ticked == app.terminal.handler.sent = Some("Tick")

InitPark == InitChat({"editor"}, {FALSE})
NextPark == ParkCall \/ UnparkCall \/ ThreadStep
SpecPark == InitPark /\ [][NextPark]_vars
\* the thread runs while it is not blocked, and the clock makes the Tick due
SpecParkFair == SpecPark /\ WF_vars(ThreadStep) /\ SF_vars(ThreadStep /\ ticked')

\* C40: for every interleaving of park and unpark with the loop of the event
\* thread, the thread is not left parked once the unpark matching every park
\* has been called: it sends events again.
C40_ThreadResumes == [](idle => <>(ticked \/ ~idle))

\* the thread sends events again after the unpark of the first pair
C40_ResumesAfterOnePair ==
  []((idle /\ app.terminal.sessions <= 1) => <>(ticked \/ ~idle))

\* the thread is blocked in thread::park with every park matched by its
\* unpark and the park channel empty: no unpark is left to wake it
C40_LeftParked ==
  /\ idle /\ app.terminal.handler.parked
  /\ app.terminal.handler.pk = 0 /\ ~app.terminal.handler.token
  /\ app.terminal.sessions = 2

====
